---- MODULE Spec2Model ----
(***************************************************************************)
(* Verification model of the strategy statistics engine of the dashboard   *)
(* (src/components/tab_main.py, src/components/basic_metrics.py) and of   *)
(* the correlation tab (src/components/tab_corr.py, tab_data.py) and the   *)
(* exchange tab (src/components/tab_exchange.py).                          *)
(*                                                                         *)
(* Numbers.  A return is held as an integer count of 1/Scale (Scale = 20,  *)
(* so 0.1 is 2 and -0.05 is -1).  Derived values are exact rationals       *)
(* <<num, den>> in lowest terms with den > 0; den = 0 encodes the IEEE     *)
(* special values the numpy arithmetic of the code yields instead of       *)
(* raising: <<0, 0>> is NaN, <<1, 0>> is +inf, <<-1, 0>> is -inf.          *)
(* Arithmetic is exact, with one exception: where the code branches on a   *)
(* floating-point comparison (std() > 0) the rounding of the two-pass      *)
(* variance decides the branch, and the model keeps that rounding, at      *)
(* MantBits bits of mantissa instead of the 53 of a double.                *)
(***************************************************************************)
EXTENDS Integers, Naturals, Sequences, FiniteSets, TLC

VARIABLES returns, table, cols, lookup, out, seen, cache, session_state

vars == <<returns, table, cols, lookup, out, seen, cache, session_state>>

\* ------------------------------------------------------------------ bounds
MaxLen == 3
MaxRows == 2
MaxNf == 2
MantBits == 5

Scale == 4 * 5

\* ------------------------------------------------------- exact rationals
Abs(x) == IF x < 0 THEN -x ELSE x

Sgn(x) == IF x < 0 THEN -1 ELSE IF x > 0 THEN 1 ELSE 0

RECURSIVE GCD(_, _)
GCD(a, b) == IF b = 0 THEN a ELSE GCD(b, a % b)

LCM(a, b) == (a \div GCD(a, b)) * b

NaN == <<0, 0>>

Zero == <<0, 1>>

Rat(n, d) ==
    IF d = 0 THEN <<Sgn(n), 0>>
    ELSE LET g == GCD(Abs(n), Abs(d))
         IN  <<Sgn(d) * (n \div g), Abs(d) \div g>>

IsNaN(x) == x = NaN

IsFinite(x) == x[2] # 0

RNeg(x) == <<-x[1], x[2]>>

RAdd(x, y) ==
    IF IsFinite(x) /\ IsFinite(y)
    THEN LET l == LCM(x[2], y[2])
         IN  Rat(x[1] * (l \div x[2]) + y[1] * (l \div y[2]), l)
    ELSE IF IsNaN(x) \/ IsNaN(y) THEN NaN
    ELSE IF ~IsFinite(x) /\ ~IsFinite(y)
         THEN (IF x = y THEN x ELSE NaN)
    ELSE IF IsFinite(x) THEN y ELSE x

RSub(x, y) == RAdd(x, RNeg(y))

RMul(x, y) ==
    IF IsFinite(x) /\ IsFinite(y)
    THEN LET g1 == GCD(Abs(x[1]), y[2])
             g2 == GCD(Abs(y[1]), x[2])
         IN  Rat((x[1] \div g1) * (y[1] \div g2), (x[2] \div g2) * (y[2] \div g1))
    ELSE IF IsNaN(x) \/ IsNaN(y) \/ x[1] = 0 \/ y[1] = 0 THEN NaN
    ELSE <<Sgn(x[1]) * Sgn(y[1]), 0>>

\* IEEE division: x/0 is +-inf, 0/0 is NaN; nothing raises.
RDiv(x, y) ==
    IF IsNaN(x) \/ IsNaN(y) THEN NaN
    ELSE IF ~IsFinite(y) THEN (IF IsFinite(x) THEN Zero ELSE NaN)
    ELSE IF y[1] = 0 THEN (IF x[1] = 0 THEN NaN ELSE <<Sgn(x[1]), 0>>)
    ELSE IF ~IsFinite(x) THEN <<x[1] * Sgn(y[1]), 0>>
    ELSE RMul(x, Rat(y[2] * Sgn(y[1]), Abs(y[1])))

\* x < y; false whenever an operand is NaN.
RLess(x, y) ==
    IF IsNaN(x) \/ IsNaN(y) THEN FALSE
    ELSE IF ~IsFinite(x) THEN x[1] < 0 /\ y # x
    ELSE IF ~IsFinite(y) THEN y[1] > 0
    ELSE LET l == LCM(x[2], y[2])
         IN  x[1] * (l \div x[2]) < y[1] * (l \div y[2])

RLeq(x, y) == ~IsNaN(x) /\ ~IsNaN(y) /\ ~RLess(y, x)

\* The value of a return held as a count of 1/Scale.
Val(r) == Rat(r, Scale)

\* ------------------------------------------- rounding of double arithmetic
RECURSIVE Pow2(_)
Pow2(k) == IF k = 0 THEN 1 ELSE 2 * Pow2(k - 1)

\* n/d > 0 brought into [2^(MantBits-1), 2^MantBits) by a power of two 2^e.
RECURSIVE FlNorm(_, _, _)
FlNorm(n, d, e) ==
    IF n >= d * Pow2(MantBits) THEN FlNorm(n, 2 * d, e + 1)
    ELSE IF n < d * Pow2(MantBits - 1) THEN FlNorm(2 * n, d, e - 1)
    ELSE <<n, d, e>>

\* The floating-point number nearest to the finite rational x (ties to even).
RoundFl(x) ==
    IF x[1] = 0 THEN Zero
    ELSE LET t == FlNorm(Abs(x[1]), x[2], 0)
             m == t[1] \div t[2]
             rem == t[1] - m * t[2]
             up == 2 * rem > t[2] \/ (2 * rem = t[2] /\ m % 2 = 1)
             mm == Sgn(x[1]) * (IF up THEN m + 1 ELSE m)
         IN  IF t[3] >= 0 THEN Rat(mm * Pow2(t[3]), 1) ELSE Rat(mm, Pow2(-t[3]))

\* The double that holds the return r.
Fl(r) == RoundFl(Val(r))

\* values.sum() in floating point: the elements added left to right.
RECURSIVE FlSum(_)
FlSum(s) ==
    IF Len(s) = 0 THEN Zero
    ELSE IF Len(s) = 1 THEN Fl(s[1])
    ELSE RoundFl(RAdd(FlSum(SubSeq(s, 1, Len(s) - 1)), Fl(s[Len(s)])))

\* values.sum() / count in floating point.
FlMean(s) == RoundFl(RDiv(FlSum(s), Rat(Len(s), 1)))

\* ------------------------------------------------------ pandas reductions
RECURSIVE SumSeq(_)
SumSeq(s) == IF Len(s) = 0 THEN 0 ELSE SumSeq(SubSeq(s, 1, Len(s) - 1)) + s[Len(s)]

\* Series.mean(): NaN for an empty series.
mean(s) == IF Len(s) = 0 THEN NaN ELSE Rat(SumSeq(s), Scale * Len(s))

RECURSIVE SumSqDev(_, _)
SumSqDev(s, avg) ==
    IF Len(s) = 0 THEN Zero
    ELSE LET dv == RSub(avg, Val(s[Len(s)]))
         IN  RAdd(SumSqDev(SubSeq(s, 1, Len(s) - 1), avg), RMul(dv, dv))

\* The square of Series.std() (ddof = 1, two passes): NaN below two elements.
variance(s) ==
    IF Len(s) < 2 THEN NaN
    ELSE RDiv(SumSqDev(s, mean(s)), Rat(Len(s) - 1, 1))

\* The test `s.std() > 0` as the doubles decide it: the squared deviations
\* from the rounded mean sum to a positive number iff one of them is not 0.
std_gt_zero(s) ==
    /\ Len(s) >= 2
    /\ \E i \in 1..Len(s) : FlMean(s) # Fl(s[i])

Negatives(s) == SelectSeq(s, LAMBDA x : x < 0)

\* Mutant of Positives: a return of 0 counts as a profit.
Positives_or_flat(s) == SelectSeq(s, LAMBDA x : x >= 0)

Positives(s) == SelectSeq(s, LAMBDA x : x > 0)

\* -------------------------------------------------------- the risk ratios
\* A ratio is held by its sign and its square (the code takes square roots).
\* noise: the denominator is a rounding residue of a deviation that is 0 in
\* exact arithmetic, so the quotient is a huge number of no meaning.
ZeroRatio == [sgn |-> 0, sq |-> Zero, noise |-> FALSE]

ratio_value(s, sub, rf, nf) ==
    IF variance(sub)[1] # 0
    THEN LET num == RSub(mean(s), Val(rf))
         IN  [sgn   |-> Sgn(num[1]),
              sq    |-> RDiv(RMul(num, num), RMul(variance(sub), Rat(nf, 1))),
              noise |-> FALSE]
    ELSE LET numf == RoundFl(RSub(FlMean(s), Fl(rf)))
         IN  IF numf[1] = 0 THEN ZeroRatio
             ELSE [sgn |-> Sgn(numf[1]), sq |-> <<1, 0>>, noise |-> TRUE]

calculate_sharpe_ratio(s, rf, nf) ==
    IF std_gt_zero(s) THEN ratio_value(s, s, rf, nf) ELSE ZeroRatio

calculate_sortino_ratio(s, rf, nf) ==
    LET downside_returns == Negatives(s)
    IN  IF std_gt_zero(downside_returns)
        THEN ratio_value(s, downside_returns, rf, nf)
        ELSE ZeroRatio

\* ------------------------------------------------------------ max drawdown
RECURSIVE cumprod(_)
cumprod(s) ==
    IF Len(s) = 0 THEN <<>>
    ELSE IF Len(s) = 1 THEN <<RAdd(<<1, 1>>, Val(s[1]))>>
    ELSE LET p == cumprod(SubSeq(s, 1, Len(s) - 1))
         IN  Append(p, RMul(p[Len(p)], RAdd(<<1, 1>>, Val(s[Len(s)]))))

\* Mutant of cummax: the peak starts at the initial capital 1.
RECURSIVE cummax_from_capital(_)
cummax_from_capital(w) ==
    IF Len(w) = 0 THEN w
    ELSE IF Len(w) = 1 THEN <<IF RLess(<<1, 1>>, w[1]) THEN w[1] ELSE <<1, 1>>>>
    ELSE LET m == cummax_from_capital(SubSeq(w, 1, Len(w) - 1))
         IN  Append(m, IF RLess(m[Len(m)], w[Len(w)]) THEN w[Len(w)] ELSE m[Len(m)])

RECURSIVE cummax(_)
cummax(w) ==
    IF Len(w) <= 1 THEN w
    ELSE LET m == cummax(SubSeq(w, 1, Len(w) - 1))
         IN  Append(m, IF RLess(m[Len(m)], w[Len(w)]) THEN w[Len(w)] ELSE m[Len(m)])

\* Series.max(): the undefined entries are skipped; NaN when none is left.
RECURSIVE series_max(_)
series_max(d) ==
    IF Len(d) = 0 THEN NaN
    ELSE LET rest == series_max(SubSeq(d, 1, Len(d) - 1))
             x == d[Len(d)]
         IN  IF IsNaN(x) THEN rest
             ELSE IF IsNaN(rest) \/ RLess(rest, x) THEN x ELSE rest

\* Mutant of series_min: the largest entry instead of the smallest.
series_min_takes_largest(d) == series_max(d)

\* Series.min(): the undefined entries are skipped; NaN when none is left.
RECURSIVE series_min(_)
series_min(d) ==
    IF Len(d) = 0 THEN NaN
    ELSE LET rest == series_min(SubSeq(d, 1, Len(d) - 1))
             x == d[Len(d)]
         IN  IF IsNaN(x) THEN rest
             ELSE IF IsNaN(rest) \/ RLess(x, rest) THEN x ELSE rest

calculate_max_drawdown(s) ==
    LET wealth_index == cumprod(s)
        previous_peaks == cummax(wealth_index)
        drawdowns == [i \in 1..Len(s) |->
                        RDiv(RSub(wealth_index[i], previous_peaks[i]), previous_peaks[i])]
    IN  series_min(drawdowns)

\* ------------------------------------------------------ duration of losses
\* (consecutive_losses != consecutive_losses.shift()).cumsum(): the number of
\* the run each element belongs to (the first element differs from its
\* missing predecessor).
RECURSIVE run_ids(_)
run_ids(c) ==
    IF Len(c) = 0 THEN <<>>
    ELSE IF Len(c) = 1 THEN <<1>>
    ELSE LET ids == run_ids(SubSeq(c, 1, Len(c) - 1))
         IN  Append(ids, ids[Len(ids)] + (IF c[Len(c)] # c[Len(c) - 1] THEN 1 ELSE 0))

\* Mutant of is_loss: a flat period counts as a loss.
is_loss_or_flat(x) == x <= 0

\* consecutive_losses = (returns < 0)
is_loss(x) == x < 0

calculate_duration_of_losses(s) ==
    LET consecutive_losses == [i \in 1..Len(s) |-> IF is_loss(s[i]) THEN 1 ELSE 0]
        ids == run_ids(consecutive_losses)
        \* groupby(ids).cumsum(): the running sum inside each run
        periods_in_loss == [i \in 1..Len(s) |->
            SumSeq([j \in 1..i |-> IF ids[j] = ids[i] THEN consecutive_losses[j] ELSE 0])]
        best == CHOOSE i \in 1..Len(s) :
                    \A j \in 1..Len(s) : periods_in_loss[j] <= periods_in_loss[i]
    IN  IF Len(s) = 0 THEN NaN ELSE Rat(periods_in_loss[best], 1)

\* ------------------------------------------------------ return classifier
\* Mutant of category: a flat period counts as a profit.
category_flat_profit(x) == IF x >= 0 THEN "PROFIT" ELSE "LOSS"

category(x) == IF x > 0 THEN "PROFIT" ELSE IF x < 0 THEN "LOSS" ELSE "HODL"

Count(s, k) == Len(SelectSeq(s, LAMBDA x : category(x) = k))

\* value_counts(normalize=True): one entry per category that occurs.
calculate_strategy_share(yields) ==
    LET keys == {category(yields[i]) : i \in 1..Len(yields)}
    IN  [k \in keys |-> Rat(Count(yields, k), Len(yields))]

\* basic_metrics.calculate_strategy_stats, on the column data['Profit / Loss %'].
basic_calculate_strategy_stats(pl) ==
    LET keys == {category(pl[i]) : i \in 1..Len(pl)}
    IN  [k \in keys |-> Rat(Count(pl, k), Len(pl))]

\* ---------------------------------------------------------------- inputs
\* Returns in units of 1/Scale: -1.5, -1, -0.1, 0, 0.1.
ReturnValues == {-30, -20, -2, 0, 2}

RECURSIVE SeqsUpTo(_, _)
SeqsUpTo(S, n) ==
    IF n = 0 THEN {<<>>}
    ELSE LET shorter == SeqsUpTo(S, n - 1)
         IN  shorter \cup {Append(q, x) : q \in {t \in shorter : Len(t) = n - 1}, x \in S}

\* The series the documentation works its examples on.
ExampleSeries == {<<2, -4, 2>>, <<-2, -2, 2, -2>>, <<2, -1, 0, 4, -2>>}

SeriesInputs == SeqsUpTo(ReturnValues, MaxLen) \cup ExampleSeries

RiskFreeRates == {0, 2}

NormalizationFactors == 1..MaxNf

\* No price lookup is part of the run.
NoLookup == [kind |-> "none", price |-> 0]

\* The record of a call: the operation, its arguments as they were at the call,
\* the exception that left it ("none": it returned), the returned value, the
\* notices and lookups it made, and the operation whose result it was given.
NoCall ==
    [op |-> "none", args |-> <<>>, exc |-> "none", ret |-> <<>>, events |-> <<>>,
     after |-> <<>>]

Returned(op, args, ret) ==
    [op |-> op, args |-> args, exc |-> "none", ret |-> ret, events |-> <<>>,
     after |-> <<>>]

\* st.cache_data before any call: no function has a stored result.
NoCache ==
    [get_coinmarketcap_price |-> {}, update_portfolio_current_balance |-> {},
     calculate_strategy_stats |-> {}]

\* st.session_state before the first render of the page: no key is set.
NoSessionState == <<>>

\* ------------------------------------------- the risk metrics library
InitMetrics ==
    /\ returns \in SeriesInputs
    /\ table = <<>>
    /\ cols = {}
    /\ lookup = NoLookup
    /\ out = NoCall
    /\ seen = NoCall
    /\ cache = NoCache
    /\ session_state = NoSessionState

CallSharpe ==
    \E rf \in RiskFreeRates, nf \in NormalizationFactors :
        /\ out = NoCall
        /\ out' = Returned("calculate_sharpe_ratio", <<rf, nf>>,
                            calculate_sharpe_ratio(returns, rf, nf))
        /\ UNCHANGED <<cache, session_state, returns, table, cols, lookup, seen>>

CallSortino ==
    \E rf \in RiskFreeRates, nf \in NormalizationFactors :
        /\ out = NoCall
        /\ out' = Returned("calculate_sortino_ratio", <<rf, nf>>,
                            calculate_sortino_ratio(returns, rf, nf))
        /\ UNCHANGED <<cache, session_state, returns, table, cols, lookup, seen>>

CallMaxDrawdown ==
    /\ out = NoCall
    /\ out' = Returned("calculate_max_drawdown", <<>>, calculate_max_drawdown(returns))
    /\ UNCHANGED <<cache, session_state, returns, table, cols, lookup, seen>>

CallDurationOfLosses ==
    /\ out = NoCall
    /\ out' = Returned("calculate_duration_of_losses", <<>>,
                        calculate_duration_of_losses(returns))
    /\ UNCHANGED <<cache, session_state, returns, table, cols, lookup, seen>>

CallStrategyShare ==
    /\ out = NoCall
    /\ out' = Returned("calculate_strategy_share", <<>>, calculate_strategy_share(returns))
    /\ UNCHANGED <<cache, session_state, returns, table, cols, lookup, seen>>

CallBasicStrategyStats ==
    /\ out = NoCall
    /\ out' = Returned("basic_metrics.calculate_strategy_stats", <<>>,
                        basic_calculate_strategy_stats(returns))
    /\ UNCHANGED <<cache, session_state, returns, table, cols, lookup, seen>>

NextMetrics ==
    \/ CallSharpe
    \/ CallSortino
    \/ CallMaxDrawdown
    \/ CallDurationOfLosses
    \/ CallStrategyShare
    \/ CallBasicStrategyStats

SpecMetrics == InitMetrics /\ [][NextMetrics]_vars

\* ------------------------------------------------- the strategy table
\* A table is its rows and the set of its columns; a row maps column names to
\* cells, and a cell of a column of the table that the row does not map is NaN.
AllColumns ==
    {"Coin", "Purchase price", "Sell price", "Quantity", "Portfolio", "Profit / Loss %"}

Frame(rows, columns) == [rows |-> rows, cols |-> columns]

Restrict(row, columns) == [c \in columns \cap DOMAIN row |-> row[c]]

HasNaN(df) == \E i \in 1..Len(df.rows) : \E c \in df.cols : c \notin DOMAIN df.rows[i]

\* df[c] for a column without NaN cells.
Column(df, c) == [i \in 1..Len(df.rows) |-> df.rows[i][c]]

\* Mutant of SetLast: the value is written into every row.
SetEveryRow(df, c, v) ==
    Frame([i \in 1..Len(df.rows) |-> [k \in DOMAIN df.rows[i] \cup {c} |->
                                         IF k = c THEN v ELSE df.rows[i][k]]],
          df.cols \cup {c})

\* df.loc[df.index[-1], c] = v: sets the cell of the last row, and adds the
\* column, NaN in the other rows, when the table does not have it.
SetLast(df, c, v) ==
    LET n == Len(df.rows)
    IN  Frame([i \in 1..n |-> IF i = n THEN [k \in DOMAIN df.rows[i] \cup {c} |->
                                                IF k = c THEN v ELSE df.rows[i][k]]
                                        ELSE df.rows[i]],
              df.cols \cup {c})

\* --------------------------------------------------- the price lookup
NetworkErrors == {"ConnectionError", "Timeout", "TooManyRedirects"}

Prices == {18, 24}

\* What the price service does at the next request: it fails in the network,
\* answers without the price field, or answers with a price.
LookupOutcomes ==
    {[kind |-> k, price |-> 0] : k \in NetworkErrors \cup {"NoPriceField"}}
        \cup {[kind |-> "price", price |-> p] : p \in Prices}

get_coinmarketcap_price(symbol, outcome) ==
    IF outcome.kind \in NetworkErrors
    THEN [exc |-> "none", none |-> TRUE, price |-> 0,
          events |-> <<<<"lookup", symbol>>, <<"st.error">>>>]
    ELSE IF outcome.kind = "NoPriceField"
    THEN [exc |-> "KeyError", none |-> TRUE, price |-> 0, events |-> <<<<"lookup", symbol>>>>]
    ELSE [exc |-> "none", none |-> FALSE, price |-> outcome.price,
          events |-> <<<<"lookup", symbol>>>>]

\* ------------------------------------- update_portfolio_current_balance
\* The result: the exception that leaves the function, the value returned,
\* the notices, and the caller's table after the call (the function writes
\* into the table it is given).
update_portfolio_current_balance(df, outcome) ==
    IF ~({"Coin", "Purchase price", "Quantity"} \subseteq df.cols)
    THEN [exc |-> "none", ret |-> df, events |-> <<<<"st.warning">>>>, arg |-> df]
    ELSE IF Len(df.rows) = 0
    THEN [exc |-> "none", ret |-> df, events |-> <<<<"st.warning">>>>, arg |-> df]
    ELSE LET last == df.rows[Len(df.rows)]
             latest_coin == last["Coin"]
             got == get_coinmarketcap_price(latest_coin, outcome)
             purchase_price == last["Purchase price"]
             current_rate_of_return == (Scale * (got.price - purchase_price)) \div purchase_price
             current_portfolio_balance == last["Quantity"] * got.price
             updated == SetLast(SetLast(SetLast(df, "Sell price", got.price),
                                        "Profit / Loss %", current_rate_of_return),
                                "Portfolio", current_portfolio_balance)
         IN  IF got.exc = "KeyError"
             THEN [exc |-> "none", ret |-> df,
                   events |-> got.events \o <<<<"st.warning">>>>, arg |-> df]
             ELSE IF got.none
             THEN [exc |-> "TypeError", ret |-> <<>>, events |-> got.events, arg |-> df]
             ELSE [exc |-> "none", ret |-> updated, events |-> got.events, arg |-> updated]

\* ------------------------------------------------ calculate_strategy_stats
Vals(s) == [i \in 1..Len(s) |-> Val(s[i])]

RECURSIVE Insert(_, _)
Insert(sorted, x) ==
    IF Len(sorted) = 0 THEN <<x>>
    ELSE IF x >= sorted[Len(sorted)] THEN Append(sorted, x)
    ELSE Append(Insert(SubSeq(sorted, 1, Len(sorted) - 1), x), sorted[Len(sorted)])

RECURSIVE Sorted(_)
Sorted(s) == IF Len(s) = 0 THEN <<>> ELSE Insert(Sorted(SubSeq(s, 1, Len(s) - 1)), s[Len(s)])

\* Series.median(): NaN for an empty series.
median(s) ==
    LET t == Sorted(s)
        n == Len(s)
    IN  IF n = 0 THEN NaN
        ELSE IF n % 2 = 1 THEN Val(t[(n + 1) \div 2])
        ELSE Rat(t[n \div 2] + t[n \div 2 + 1], 2 * Scale)

\* Mutant of agg: 'Minimum' and 'Maximum' are exchanged.
agg_extremes_exchanged(s) ==
    [Total    |-> Rat(SumSeq(s), Scale),
     Mean     |-> mean(s),
     Count    |-> Len(s),
     Variance |-> variance(s),
     Minimum  |-> series_max(Vals(s)),
     Maximum  |-> series_min(Vals(s)),
     Median   |-> median(s)]

\* yields[...].agg({...}); the entry 'Standard Deviation' is held by its square.
agg(s) ==
    [Total    |-> Rat(SumSeq(s), Scale),
     Mean     |-> mean(s),
     Count    |-> Len(s),
     Variance |-> variance(s),
     Minimum  |-> series_min(Vals(s)),
     Maximum  |-> series_max(Vals(s)),
     Median   |-> median(s)]

\* Mutant of return_on_investment: the gain over the closing balance.
return_on_investment_over_closing(start, current) ==
    RDiv(Rat(current - start, 1), Rat(current, 1))

\* roi = (current - start) / start
return_on_investment(start, current) ==
    RDiv(Rat(current - start, 1), Rat(start, 1))

\* Mutant of compound_return: the root of degree n instead of n - 1.
compound_return_root_of_rows(start, current, months_count) ==
    [zero |-> FALSE, base |-> Rat(current, start), root |-> months_count + 1]

\* (current / start) ** (1 / months_count) - 1, held by its base and the degree
\* of the root; zero: the division 1 / months_count raised ZeroDivisionError.
compound_return(start, current, months_count) ==
    IF months_count = 0
    THEN [zero |-> TRUE, base |-> NaN, root |-> 0]
    ELSE [zero |-> FALSE, base |-> Rat(current, start), root |-> months_count]

\* Mutant of count: the ratios are normalised by n instead of sqrt(n).
count_squared(s) == Len(s) * Len(s)

\* yields.count(): the number of returns that are not NaN.
count(s) == Len(s)

\* The summary of a table with the columns read, at least one row and no NaN.
strategy_summary(df) ==
    LET n == Len(df.rows)
        start_portfolio_balance == df.rows[1]["Portfolio"]
        current_portfolio_balance == df.rows[n]["Portfolio"]
        months_count == n - 1
        yields == Column(df, "Profit / Loss %")
        profit_metrics == agg(Positives(yields))
        loss_metrics == agg(Negatives(yields))
    IN  [life_period |-> n,
         profit_count |-> profit_metrics.Count,
         loss_count |-> loss_metrics.Count,
         month_over_month |-> Val(yields[n]),
         return_on_investment |->
             return_on_investment(start_portfolio_balance, current_portfolio_balance),
         monthly_return_with_compound_interest |->
             compound_return(start_portfolio_balance, current_portfolio_balance, months_count),
         average_return |-> mean(yields),
         volatility_squared |-> variance(yields),
         mean_profit |-> profit_metrics.Mean,
         mean_loss |-> loss_metrics.Mean,
         median_profit |-> profit_metrics.Median,
         median_loss |-> loss_metrics.Median,
         std_profit_squared |-> profit_metrics.Variance,
         std_loss_squared |-> loss_metrics.Variance,
         max_profit |-> profit_metrics.Maximum,
         max_loss |-> loss_metrics.Minimum,
         min_profit |-> profit_metrics.Minimum,
         min_loss |-> loss_metrics.Maximum,
         sharpe_ratio |-> calculate_sharpe_ratio(yields, 0, count(yields)),
         sortino_ratio |-> calculate_sortino_ratio(yields, 0, count(yields)),
         max_drawdown |-> calculate_max_drawdown(yields),
         duration_of_losses |-> calculate_duration_of_losses(yields)]

\* Mutant of calculate_strategy_stats: the summary drifts with the session.
calculate_strategy_stats_drifting(df) ==
    IF "Portfolio" \notin df.cols THEN [exc |-> "KeyError: 'Portfolio'", ret |-> <<>>]
    ELSE IF Len(df.rows) = 0 THEN [exc |-> "IndexError", ret |-> <<>>]
    ELSE IF "Profit / Loss %" \notin df.cols
    THEN [exc |-> "KeyError: 'Profit / Loss %'", ret |-> <<>>]
    ELSE [exc |-> "none",
          ret |-> [strategy_summary(df) EXCEPT
                      !.life_period = IF seen = NoCall THEN @ ELSE @ + 1]]

calculate_strategy_stats(df) ==
    IF "Portfolio" \notin df.cols THEN [exc |-> "KeyError: 'Portfolio'", ret |-> <<>>]
    ELSE IF Len(df.rows) = 0 THEN [exc |-> "IndexError", ret |-> <<>>]
    ELSE IF "Profit / Loss %" \notin df.cols
    THEN [exc |-> "KeyError: 'Profit / Loss %'", ret |-> <<>>]
    ELSE [exc |-> "none", ret |-> strategy_summary(df)]

\* basic_metrics.calculate_strategy_stats(data)
basic_metrics_calculate_strategy_stats(df) ==
    IF "Profit / Loss %" \notin df.cols
    THEN [exc |-> "KeyError: 'Profit / Loss %'", ret |-> <<>>]
    ELSE [exc |-> "none",
          ret |-> basic_calculate_strategy_stats(Column(df, "Profit / Loss %"))]

\* ------------------------------------------------------ exclude_outliers
OutlierLimit == 5

\* Mutant of between: the ends -5 and 5 are left out.
between_exclusive(row) ==
    /\ "Profit / Loss %" \in DOMAIN row
    /\ -OutlierLimit * Scale < row["Profit / Loss %"]
    /\ row["Profit / Loss %"] < OutlierLimit * Scale

\* Series.between(-5, 5): both ends included, false for NaN.
between(row) ==
    /\ "Profit / Loss %" \in DOMAIN row
    /\ -OutlierLimit * Scale <= row["Profit / Loss %"]
    /\ row["Profit / Loss %"] <= OutlierLimit * Scale

\* The positions (labels of the default index, from 0) of the rows kept.
RECURSIVE KeptLabels(_, _)
KeptLabels(rows, n) ==
    IF n = 0 THEN <<>>
    ELSE IF between(rows[n]) THEN Append(KeptLabels(rows, n - 1), n - 1)
    ELSE KeptLabels(rows, n - 1)

\* df[...].reset_index(): the rows kept, with their old labels as a new column.
exclude_outliers(df) ==
    IF "Profit / Loss %" \notin df.cols
    THEN [exc |-> "ValueError: Column 'Profit / Loss %' not found in strategy_data.",
          ret |-> <<>>]
    ELSE LET kept == KeptLabels(df.rows, Len(df.rows))
         IN  [exc |-> "none",
              ret |-> Frame([i \in 1..Len(kept) |->
                                [c \in DOMAIN df.rows[kept[i] + 1] \cup {"index"} |->
                                    IF c = "index" THEN kept[i] ELSE df.rows[kept[i] + 1][c]]],
                            df.cols \cup {"index"})]

\* ------------------------------------------------------- the dashboard run
\* Rows of the momentum table: Profit / Loss % = (Sell - Purchase) / Purchase in
\* units of 1/Scale, Portfolio = Quantity * Sell price.
RowPool ==
    {[c \in AllColumns |->
        CASE c = "Coin" -> "BTC" [] c = "Purchase price" -> 20 [] c = "Sell price" -> 22
          [] c = "Quantity" -> 5 [] c = "Portfolio" -> 110 [] OTHER -> 2],
     [c \in AllColumns |->
        CASE c = "Coin" -> "ETH" [] c = "Purchase price" -> 10 [] c = "Sell price" -> 9
          [] c = "Quantity" -> 10 [] c = "Portfolio" -> 90 [] OTHER -> -2],
     [c \in AllColumns |->
        CASE c = "Coin" -> "BTC" [] c = "Purchase price" -> 20 [] c = "Sell price" -> 20
          [] c = "Quantity" -> 5 [] c = "Portfolio" -> 100 [] OTHER -> 0],
     [c \in AllColumns |->
        CASE c = "Coin" -> "ETH" [] c = "Purchase price" -> 10 [] c = "Sell price" -> 8
          [] c = "Quantity" -> 10 [] c = "Portfolio" -> 80 [] OTHER -> -4]}

RequiredColumns == {"Coin", "Purchase price", "Portfolio", "Quantity", "Profit / Loss %"}

\* The table has every column, or lacks one of the required ones.
ColumnSets == {AllColumns} \cup {AllColumns \ {c} : c \in RequiredColumns}

InitPipeline ==
    /\ returns = <<>>
    /\ \E columns \in ColumnSets, q \in SeqsUpTo(RowPool, MaxRows) :
          /\ table = [i \in 1..Len(q) |-> Restrict(q[i], columns)]
          /\ cols = columns
    /\ lookup \in LookupOutcomes
    /\ out = NoCall
    /\ seen = NoCall
    /\ cache = NoCache
    /\ session_state = NoSessionState

Trace == IF out = NoCall THEN <<>> ELSE Append(out.after, out.op)

\* An operation of the run starts it, or follows one of `earlier` that returned.
Follows(earlier) == out = NoCall \/ (out.op \in earlier /\ out.exc = "none")

\* The table it is given: the caller's table, or the one returned before it.
Given == IF out = NoCall THEN Frame(table, cols) ELSE out.ret

UpdatePortfolioCurrentBalance ==
    /\ out = NoCall
    /\ LET r == update_portfolio_current_balance(Frame(table, cols), lookup)
       IN  /\ out' = [op |-> "update_portfolio_current_balance",
                      args |-> <<Frame(table, cols)>>, exc |-> r.exc, ret |-> r.ret,
                      events |-> r.events, after |-> Trace]
           /\ table' = r.arg.rows
           /\ cols' = r.arg.cols
    /\ UNCHANGED <<cache, session_state, returns, lookup, seen>>

ExcludeOutliers ==
    /\ Follows({"update_portfolio_current_balance"})
    /\ LET r == exclude_outliers(Given)
       IN  out' = [op |-> "exclude_outliers", args |-> <<Given>>, exc |-> r.exc,
                   ret |-> r.ret, events |-> <<>>, after |-> Trace]
    /\ UNCHANGED <<cache, session_state, returns, table, cols, lookup, seen>>

CalculateStrategyStats ==
    /\ Follows({"update_portfolio_current_balance", "exclude_outliers"})
    /\ ~HasNaN(Given)
    /\ LET r == calculate_strategy_stats(Given)
       IN  out' = [op |-> "calculate_strategy_stats", args |-> <<Given>>, exc |-> r.exc,
                   ret |-> r.ret, events |-> <<>>, after |-> Trace]
    /\ UNCHANGED <<cache, session_state, returns, table, cols, lookup, seen>>

BasicStrategyStats ==
    /\ out = NoCall
    /\ LET r == basic_metrics_calculate_strategy_stats(Frame(table, cols))
       IN  out' = [op |-> "basic_metrics.calculate_strategy_stats",
                   args |-> <<Frame(table, cols)>>, exc |-> r.exc, ret |-> r.ret,
                   events |-> <<>>, after |-> Trace]
    /\ UNCHANGED <<cache, session_state, returns, table, cols, lookup, seen>>

NextPipeline ==
    \/ UpdatePortfolioCurrentBalance
    \/ ExcludeOutliers
    \/ CalculateStrategyStats
    \/ BasicStrategyStats

SpecPipeline == InitPipeline /\ [][NextPipeline]_vars

\* -------------------------------------------------- describe_profit_loss
\* Series.quantile(k / 4), linear interpolation, of a non-empty series.
quantile(s, k) ==
    LET t == Sorted(s)
        pos == (Len(s) - 1) * k
        lo == pos \div 4 + 1
        fr == pos % 4
    IN  IF fr = 0 THEN Val(t[lo])
        ELSE Rat(4 * t[lo] + fr * (t[lo + 1] - t[lo]), 4 * Scale)

\* x.abs(): the series of the absolute values.
abs(s) == [i \in 1..Len(s) |-> Abs(s[i])]

\* Series.describe() of a non-empty series; 'std' is held by its square.
describe(s) ==
    [count |-> Len(s),
     mean |-> mean(s),
     std_squared |-> variance(s),
     min |-> series_min(Vals(s)),
     q25 |-> quantile(s, 1),
     q50 |-> quantile(s, 2),
     q75 |-> quantile(s, 3),
     max |-> series_max(Vals(s))]

\* What groupby(...).apply(...).unstack() makes of a table without rows: no
\* group is formed, and depending on the index the empty result carries the
\* call to unstack() fails or yields a frame without rows.
EmptyGroupOutcomes == {"ValueError", "none"}

\* One row of statistics for each group that has a row: groupby forms a group
\* for a key value that occurs and none for one that does not.
describe_profit_loss(df, flag, on_empty) ==
    IF "Profit / Loss %" \notin df.cols
    THEN [exc |-> "KeyError: 'Profit / Loss %'", ret |-> <<>>]
    ELSE LET bounded == IF flag THEN SelectSeq(df.rows, between) ELSE df.rows
             data == SelectSeq(bounded, LAMBDA row : row["Profit / Loss %"] # 0)
             pl == [i \in 1..Len(data) |-> data[i]["Profit / Loss %"]]
             keys == {IF pl[i] > 0 THEN "Profit" ELSE "Loss" : i \in 1..Len(pl)}
             group(k) == IF k = "Profit" THEN Positives(pl) ELSE Negatives(pl)
         IN  IF keys = {} /\ on_empty # "none"
             THEN [exc |-> on_empty, ret |-> <<>>]
             ELSE [exc |-> "none", ret |-> [k \in keys |-> describe(abs(group(k)))]]

\* Returns in units of 1/Scale: -6, -5, -0.1, 0, 0.1, 5, 6.
DescribeReturns == {-120, -100, -2, 0, 2, 100, 120}

\* A table of which only the return column matters, with it or without it.
InitDescribe ==
    /\ returns = <<>>
    /\ \E q \in SeqsUpTo(DescribeReturns, MaxLen) :
          table = [i \in 1..Len(q) |-> [c \in {"Profit / Loss %"} |-> q[i]]]
    /\ cols \in {{"Profit / Loss %"}, {"Portfolio"}}
    /\ lookup = NoLookup
    /\ out = NoCall
    /\ seen = NoCall
    /\ cache = NoCache
    /\ session_state = NoSessionState

\* The table handed to describe_profit_loss.
Described == Frame([i \in 1..Len(table) |-> Restrict(table[i], cols)], cols)

DescribeProfitLoss ==
    \E flag \in BOOLEAN, on_empty \in EmptyGroupOutcomes :
        /\ out = NoCall
        /\ LET r == describe_profit_loss(Described, flag, on_empty)
           IN  out' = [op |-> "describe_profit_loss", args |-> <<Described, flag>>,
                       exc |-> r.exc, ret |-> r.ret, events |-> <<>>, after |-> <<>>]
        /\ UNCHANGED <<cache, session_state, returns, table, cols, lookup, seen>>

\* basic_metrics.describe_profit_loss: the same statements.
BasicDescribeProfitLoss ==
    \E flag \in BOOLEAN, on_empty \in EmptyGroupOutcomes :
        /\ out = NoCall
        /\ LET r == describe_profit_loss(Described, flag, on_empty)
           IN  out' = [op |-> "basic_metrics.describe_profit_loss",
                       args |-> <<Described, flag>>,
                       exc |-> r.exc, ret |-> r.ret, events |-> <<>>, after |-> <<>>]
        /\ UNCHANGED <<cache, session_state, returns, table, cols, lookup, seen>>

NextDescribe ==
    \/ DescribeProfitLoss
    \/ BasicDescribeProfitLoss

SpecDescribe == InitDescribe /\ [][NextDescribe]_vars

\* ------------------------------------------------- a dashboard session
\* The functions are called again and again on the caller's table as the page
\* is rerun.  seen is a call of calculate_strategy_stats made earlier in the
\* session, with (in its field after) the last other operation that ran since.
\* The price service during the session: a network error, an answer without
\* the price field, or a price.
SessionLookups ==
    {o \in LookupOutcomes : o.kind \in {"ConnectionError", "NoPriceField"} \/ o.price = 24}

InitSession ==
    /\ returns = <<>>
    /\ table \in SeqsUpTo(RowPool, MaxRows)
    /\ cols = AllColumns
    /\ lookup \in SessionLookups
    /\ out = NoCall
    /\ seen = NoCall
    /\ cache = NoCache
    /\ session_state = NoSessionState

Since(op) == IF seen = NoCall THEN seen ELSE [seen EXCEPT !.after = <<op>>]

SessionStrategyStats ==
    \E remember \in BOOLEAN :
        LET df == Frame(table, cols)
            r == calculate_strategy_stats(df)
            call == [op |-> "calculate_strategy_stats", args |-> <<df>>, exc |-> r.exc,
                     ret |-> r.ret, events |-> <<>>, after |-> <<>>]
        IN  /\ ~HasNaN(df)
            /\ out' = call
            /\ seen' = IF remember THEN call ELSE seen
            /\ UNCHANGED <<cache, session_state, returns, table, cols, lookup>>

SessionUpdatePortfolioCurrentBalance ==
    /\ LET r == update_portfolio_current_balance(Frame(table, cols), lookup)
       IN  /\ out' = [op |-> "update_portfolio_current_balance",
                      args |-> <<Frame(table, cols)>>, exc |-> r.exc, ret |-> r.ret,
                      events |-> r.events, after |-> <<>>]
           /\ table' = r.arg.rows
           /\ cols' = r.arg.cols
    /\ seen' = Since("update_portfolio_current_balance")
    /\ UNCHANGED <<cache, session_state, returns, lookup>>

SessionExcludeOutliers ==
    /\ LET r == exclude_outliers(Frame(table, cols))
       IN  out' = [op |-> "exclude_outliers", args |-> <<Frame(table, cols)>>,
                   exc |-> r.exc, ret |-> r.ret, events |-> <<>>, after |-> <<>>]
    /\ seen' = Since("exclude_outliers")
    /\ UNCHANGED <<cache, session_state, returns, table, cols, lookup>>

SessionDescribeProfitLoss ==
    \E flag \in BOOLEAN, on_empty \in EmptyGroupOutcomes :
        /\ LET r == describe_profit_loss(Frame(table, cols), flag, on_empty)
           IN  out' = [op |-> "describe_profit_loss", args |-> <<Frame(table, cols), flag>>,
                       exc |-> r.exc, ret |-> r.ret, events |-> <<>>, after |-> <<>>]
        /\ seen' = Since("describe_profit_loss")
        /\ UNCHANGED <<cache, session_state, returns, table, cols, lookup>>

NextSession ==
    \/ SessionStrategyStats
    \/ SessionUpdatePortfolioCurrentBalance
    \/ SessionExcludeOutliers
    \/ SessionDescribeProfitLoss

SpecSession == InitSession /\ [][NextSession]_vars

\* ------------------------------- calculate_compound_interest_dynamics
\* A cell of pd.Series(index=dates, dtype=float) that was never assigned.
Unassigned == [zero |-> FALSE, base |-> NaN, root |-> 0]

\* compound_interests[label] = value: every position whose label is `label`.
Assign(series, dates, label, value) ==
    [i \in 1..Len(series) |-> IF dates[i] = label THEN value ELSE series[i]]

\* The series after the first k turns of the loop; month counts from 0 and
\* dates[month] is the date at position month.
RECURSIVE dynamics_after(_, _, _)
dynamics_after(portfolio_balance, dates, k) ==
    IF k = 0 THEN [i \in 1..Len(dates) |-> Unassigned]
    ELSE LET month == k - 1
             start_portfolio_balance == portfolio_balance[1]
             current_balance == portfolio_balance[k]
         IN  Assign(dynamics_after(portfolio_balance, dates, k - 1), dates, dates[k],
                    compound_return(start_portfolio_balance, current_balance, month))

calculate_compound_interest_dynamics(portfolio_balance, dates) ==
    IF Len(portfolio_balance) = 0 THEN [exc |-> "IndexError", ret |-> <<>>]
    ELSE [exc |-> "none",
          ret |-> dynamics_after(portfolio_balance, dates, Len(portfolio_balance))]

Balances == {100, 110, 121}

\* Purchase dates, as day numbers.
Dates == {1, 2}

DynamicsColumns == {"Portfolio", "Purchase date"}

DynamicsRows == {[c \in DynamicsColumns |-> IF c = "Portfolio" THEN b ELSE d] :
                    b \in Balances, d \in Dates}

InitDynamics ==
    /\ returns = <<>>
    /\ table \in SeqsUpTo(DynamicsRows, MaxLen)
    /\ cols = DynamicsColumns
    /\ lookup = NoLookup
    /\ out = NoCall
    /\ seen = NoCall
    /\ cache = NoCache
    /\ session_state = NoSessionState

CalculateCompoundInterestDynamics ==
    /\ out = NoCall
    /\ LET df == Frame(table, cols)
           r == calculate_compound_interest_dynamics(Column(df, "Portfolio"),
                                                     Column(df, "Purchase date"))
       IN  out' = [op |-> "calculate_compound_interest_dynamics",
                   args |-> <<Column(df, "Portfolio"), Column(df, "Purchase date")>>,
                   exc |-> r.exc, ret |-> r.ret, events |-> <<>>, after |-> <<>>]
    /\ UNCHANGED <<cache, session_state, returns, table, cols, lookup, seen>>

NextDynamics == CalculateCompoundInterestDynamics

SpecDynamics == InitDynamics /\ [][NextDynamics]_vars

\* ------------------------------------------------- the correlation tab
\* A correlation matrix maps a base asset (row) to a mapping from the assets
\* (columns) to the correlation; as DataFrame.corr() yields it: symmetric, 1 on
\* the diagonal, NaN where no correlation is defined.
Coins == {"BTC", "ETH", "SOL"}

CorrelationValues == {<<-1, 1>>, <<-1, 2>>, <<0, 1>>, <<1, 2>>, NaN}

CoinPairs == {pair \in SUBSET Coins : Cardinality(pair) = 2}

CorrelationMatrices ==
    {[b \in Coins |-> [c \in Coins |-> IF b = c THEN <<1, 1>> ELSE f[{b, c}]]] :
        f \in [CoinPairs -> CorrelationValues]}

\* Mutant of find_negative_correlation_coins: a correlation of 0 is collected.
find_nonpositive_correlation_coins(correlation_matrix) ==
    [base_coin \in DOMAIN correlation_matrix |->
        [coin \in {c \in DOMAIN correlation_matrix[base_coin] :
                      /\ base_coin # c
                      /\ RLeq(correlation_matrix[base_coin][c], Zero)} |->
            correlation_matrix[base_coin][coin]]]

\* One entry per row of the matrix; the comparison with NaN is false.
find_negative_correlation_coins(correlation_matrix) ==
    [base_coin \in DOMAIN correlation_matrix |->
        [coin \in {c \in DOMAIN correlation_matrix[base_coin] :
                      /\ base_coin # c
                      /\ RLess(correlation_matrix[base_coin][c], Zero)} |->
            correlation_matrix[base_coin][coin]]]

\* Mutant of visualize_negative_correlations: a value at the threshold is drawn.
visualize_at_or_below_threshold(coins_with_negative_corr, correlation_threshold, selected_base_coins) ==
    {<<b, c, v>> \in Coins \X Coins \X CorrelationValues :
        /\ b \in DOMAIN coins_with_negative_corr
        /\ ~(selected_base_coins # {} /\ b \notin selected_base_coins)
        /\ c \in DOMAIN coins_with_negative_corr[b]
        /\ v = coins_with_negative_corr[b][c]
        /\ RLeq(v, correlation_threshold)}

\* The traces added to the figure, each as <<base asset, asset, correlation>>.
\* An empty selection stands for the empty list and for None alike.
visualize_negative_correlations(coins_with_negative_corr, correlation_threshold, selected_base_coins) ==
    {<<b, c, v>> \in Coins \X Coins \X CorrelationValues :
        /\ b \in DOMAIN coins_with_negative_corr
        /\ ~(selected_base_coins # {} /\ b \notin selected_base_coins)
        /\ c \in DOMAIN coins_with_negative_corr[b]
        /\ v = coins_with_negative_corr[b][c]
        /\ RLess(v, correlation_threshold)}

\* Positions of the slider 'Select Correlation Threshold'.
Thresholds == {<<-1, 1>>, <<-1, 2>>, <<0, 1>>}

InitCorrelation ==
    /\ returns = <<>>
    /\ table \in CorrelationMatrices
    /\ cols = Coins
    /\ lookup = NoLookup
    /\ out = NoCall
    /\ seen = NoCall
    /\ cache = NoCache
    /\ session_state = NoSessionState

FindNegativeCorrelationCoins ==
    /\ out = NoCall
    /\ out' = Returned("find_negative_correlation_coins", <<table>>,
                        find_negative_correlation_coins(table))
    /\ UNCHANGED <<cache, session_state, returns, table, cols, lookup, seen>>

\* tab_corr: the threshold and the selection are read from the session state.
VisualizeNegativeCorrelations ==
    \E threshold \in Thresholds, selected \in SUBSET Coins :
        /\ out.op = "find_negative_correlation_coins"
        /\ out' = [Returned("visualize_negative_correlations",
                            <<out.ret, threshold, selected>>,
                            visualize_negative_correlations(out.ret, threshold, selected))
                      EXCEPT !.after = <<out.op>>]
        /\ UNCHANGED <<cache, session_state, returns, table, cols, lookup, seen>>

\* tab_data: the threshold and the selection are arguments.
DataVisualizeNegativeCorrelations ==
    \E threshold \in Thresholds, selected \in SUBSET Coins :
        /\ out.op = "find_negative_correlation_coins"
        /\ out' = [Returned("tab_data.visualize_negative_correlations",
                            <<out.ret, threshold, selected>>,
                            visualize_negative_correlations(out.ret, threshold, selected))
                      EXCEPT !.after = <<out.op>>]
        /\ UNCHANGED <<cache, session_state, returns, table, cols, lookup, seen>>

NextCorrelation ==
    \/ FindNegativeCorrelationCoins
    \/ VisualizeNegativeCorrelations
    \/ DataVisualizeNegativeCorrelations

SpecCorrelation == InitCorrelation /\ [][NextCorrelation]_vars

\* ------------------------------------------------- the raw price table
\* A row of the raw price table: its label in the index, its timestamp and the
\* price of a coin.  The sheet is loaded with the labels 0, 1, 2, ...
Timestamps == {1, 2}

CoinPrices == {10, 11}

PriceTables ==
    {[i \in 1..Len(q) |-> [label |-> i - 1, datetime |-> q[i][1], BTC |-> q[i][2]]] :
        q \in SeqsUpTo(Timestamps \X CoinPrices, MaxLen)}

KeyColumns == {"datetime", "BTC"}

\* Mutant of duplicated: the last occurrence of a key value is the one kept.
duplicated_keep_last(data, condition_column) ==
    {i \in 1..Len(data) :
        \E j \in (i + 1)..Len(data) : data[j][condition_column] = data[i][condition_column]}

\* data.duplicated(condition_column): the positions whose key value occurred at
\* an earlier position.
duplicated(data, condition_column) ==
    {i \in 1..Len(data) :
        \E j \in 1..(i - 1) : data[j][condition_column] = data[i][condition_column]}

\* data.drop(duplicate_indexes): every row whose label is among the labels of
\* the duplicated rows is dropped.
drop_duplicates(data, condition_column) ==
    LET duplicate_indexes == {data[i].label : i \in duplicated(data, condition_column)}
    IN  SelectSeq(data, LAMBDA row : row.label \notin duplicate_indexes)

\* DataFrame.pct_change() of the price column: undefined in the first row.
pct_change(data) ==
    [i \in 1..Len(data) |->
        IF i = 1 THEN NaN ELSE Rat(data[i].BTC - data[i - 1].BTC, data[i - 1].BTC)]

InitPrices ==
    /\ returns = <<>>
    /\ table \in PriceTables
    /\ cols = KeyColumns
    /\ lookup = NoLookup
    /\ out = NoCall
    /\ seen = NoCall
    /\ cache = NoCache
    /\ session_state = NoSessionState

DropDuplicates ==
    \E condition_column \in KeyColumns :
        /\ out = NoCall
        /\ out' = Returned("drop_duplicates", <<table, condition_column>>,
                            drop_duplicates(table, condition_column))
        /\ UNCHANGED <<cache, session_state, returns, table, cols, lookup, seen>>

\* drop_duplicates applied to its own output, with the same key column.
DropDuplicatesAgain ==
    /\ out.op = "drop_duplicates"
    /\ out.after = <<>>
    /\ out' = [Returned("drop_duplicates", <<out.ret, out.args[2]>>,
                        drop_duplicates(out.ret, out.args[2]))
                  EXCEPT !.after = <<"drop_duplicates">>]
    /\ UNCHANGED <<cache, session_state, returns, table, cols, lookup, seen>>

\* tab_corr.show_corr_data: the table is cleaned of duplicate timestamps, and
\* the percent changes and the correlation matrix are computed from the cleaned
\* table.  The matrix is held by the table it is computed from.
ShowCorrData ==
    /\ out = NoCall
    /\ LET coin_api_data == table
           coin_api_data_cleaned == drop_duplicates(coin_api_data, "datetime")
       IN  out' = Returned("show_corr_data", <<coin_api_data>>,
                           [coin_pct_change |-> pct_change(coin_api_data_cleaned),
                            pct_change_of |-> coin_api_data_cleaned,
                            correlation_matrix_of |-> coin_api_data_cleaned])
    /\ UNCHANGED <<cache, session_state, returns, table, cols, lookup, seen>>

\* tab_data.show_coin_api_data: the correlation matrix is computed from the
\* table as it was retrieved.
ShowCoinApiData ==
    /\ out = NoCall
    /\ LET coin_api_data == table
       IN  out' = Returned("show_coin_api_data", <<coin_api_data>>,
                           [correlation_matrix_of |-> coin_api_data])
    /\ UNCHANGED <<cache, session_state, returns, table, cols, lookup, seen>>

NextPrices ==
    \/ DropDuplicates
    \/ DropDuplicatesAgain
    \/ ShowCorrData
    \/ ShowCoinApiData

SpecPrices == InitPrices /\ [][NextPrices]_vars

\* ------------------------------------------------------- st.cache_data
\* @st.cache_data(ttl=600): a stored result is served for 600 seconds.
ttl == 600

\* The clock is advanced by half the time to live.
TickSeconds == ttl \div 2

\* The stored results of one function for the arguments `key`.
Stored(entries, key) == {e \in entries : e.key = key}

Store(entries, key, value) == entries \cup {[key |-> key, value |-> value, age |-> 0]}

\* The body of update_portfolio_current_balance asks for a price.
AsksPrice(df) == {"Coin", "Purchase price", "Quantity"} \subseteq df.cols /\ Len(df.rows) > 0

\* What the body of a caller gets from a stored result of
\* get_coinmarketcap_price: the price, or the None stored after a network error.
Replayed(value) ==
    IF value.none THEN [kind |-> "ConnectionError", price |-> 0]
    ELSE [kind |-> "price", price |-> value.price]

\* The notices of a stored result are replayed; no request is made.
WithoutLookups(events) == SelectSeq(events, LAMBDA e : e[1] # "lookup")

InitCache ==
    /\ returns = <<>>
    /\ table \in SeqsUpTo(RowPool, MaxRows)
    /\ cols = AllColumns
    /\ lookup \in SessionLookups
    /\ out = NoCall
    /\ seen = NoCall
    /\ cache = NoCache
    /\ session_state = NoSessionState

\* update_portfolio_current_balance behind @st.cache_data(ttl=600), calling
\* get_coinmarketcap_price behind @st.cache_data(ttl=600).  A stored result is
\* returned without running the body; a result is stored when the body returns.
CachedUpdatePortfolioCurrentBalance ==
    LET df == Frame(table, cols)
        hits == Stored(cache.update_portfolio_current_balance, df)
        latest_coin == df.rows[Len(df.rows)]["Coin"]
        price_hits == IF AsksPrice(df) THEN Stored(cache.get_coinmarketcap_price, latest_coin)
                      ELSE {}
        got == get_coinmarketcap_price(latest_coin, lookup)
        r == IF price_hits # {}
             THEN update_portfolio_current_balance(df, Replayed((CHOOSE e \in price_hits : TRUE).value))
             ELSE update_portfolio_current_balance(df, lookup)
    IN  IF hits # {}
        THEN /\ out' = [Returned("update_portfolio_current_balance", <<df>>,
                                 (CHOOSE e \in hits : TRUE).value)
                           EXCEPT !.after = <<"st.cache_data">>]
             /\ UNCHANGED <<cache, session_state, returns, table, cols, lookup, seen>>
        ELSE /\ out' = [op |-> "update_portfolio_current_balance", args |-> <<df>>,
                        exc |-> r.exc, ret |-> r.ret,
                        events |-> IF price_hits # {} THEN WithoutLookups(r.events)
                                   ELSE r.events,
                        after |-> <<>>]
             /\ table' = r.arg.rows
             /\ cols' = r.arg.cols
             /\ cache' = [cache EXCEPT
                    !.get_coinmarketcap_price =
                        IF AsksPrice(df) /\ price_hits = {} /\ got.exc = "none"
                        THEN Store(@, latest_coin, [none |-> got.none, price |-> got.price])
                        ELSE @,
                    !.update_portfolio_current_balance =
                        IF r.exc = "none" THEN Store(@, df, r.ret) ELSE @]
             /\ UNCHANGED <<session_state, returns, lookup, seen>>

\* calculate_strategy_stats behind @st.cache_data(ttl=600).
CachedCalculateStrategyStats ==
    LET df == Frame(table, cols)
        hits == Stored(cache.calculate_strategy_stats, df)
        r == calculate_strategy_stats(df)
    IN  /\ ~HasNaN(df)
        /\ IF hits # {}
           THEN /\ out' = [Returned("calculate_strategy_stats", <<df>>,
                                    (CHOOSE e \in hits : TRUE).value)
                              EXCEPT !.after = <<"st.cache_data">>]
                /\ UNCHANGED cache
           ELSE /\ out' = [op |-> "calculate_strategy_stats", args |-> <<df>>,
                           exc |-> r.exc, ret |-> r.ret, events |-> <<>>, after |-> <<>>]
                /\ cache' = [cache EXCEPT
                       !.calculate_strategy_stats =
                           IF r.exc = "none" THEN Store(@, df, r.ret) ELSE @]
        /\ UNCHANGED <<session_state, returns, table, cols, lookup, seen>>

\* Between two runs of the page the price service changes its answer.
PriceChanges ==
    /\ lookup' \in SessionLookups \ {lookup}
    /\ out' = NoCall
    /\ UNCHANGED <<cache, session_state, returns, table, cols, seen>>

\* Between two runs of the page time passes: the stored results age, and those
\* that reach their time to live are dropped.
Tick ==
    LET aged(entries) == {[e EXCEPT !.age = @ + TickSeconds] :
                             e \in {x \in entries : x.age + TickSeconds < ttl}}
    IN  /\ cache # NoCache
        /\ cache' = [f \in DOMAIN cache |-> aged(cache[f])]
        /\ out' = NoCall
        /\ UNCHANGED <<session_state, returns, table, cols, lookup, seen>>

NextCache ==
    \/ CachedUpdatePortfolioCurrentBalance
    \/ CachedCalculateStrategyStats
    \/ PriceChanges
    \/ Tick

SpecCache == InitCache /\ [][NextCache]_vars

\* ------------------------------------------------------------ show_main_tab
PurchaseYears == {2023, 2024}

DatedColumns == AllColumns \cup {"Purchase date"}

\* Rows of a strategy table with the year of their 'Purchase date'.  The
\* second one becomes an outlier when its sell price is updated.
DatedRowPool ==
    {[c \in DatedColumns |->
        CASE c = "Coin" -> "BTC" [] c = "Purchase price" -> 20 [] c = "Sell price" -> 22
          [] c = "Quantity" -> 5 [] c = "Portfolio" -> 110 [] c = "Purchase date" -> y
          [] OTHER -> 2] : y \in PurchaseYears}
    \cup {[c \in DatedColumns |->
        CASE c = "Coin" -> "BTC" [] c = "Purchase price" -> 2 [] c = "Sell price" -> 2
          [] c = "Quantity" -> 5 [] c = "Portfolio" -> 10 [] c = "Purchase date" -> y
          [] OTHER -> 0] : y \in PurchaseYears}

\* The table has every column, or lacks one that show_main_tab asks for.
DatedColumnSets == {DatedColumns, DatedColumns \ {"Purchase date"}, DatedColumns \ {"Portfolio"}}

DatedTables(n) ==
    {Frame([i \in 1..Len(q) |-> Restrict(q[i], columns)], columns) :
        q \in SeqsUpTo(DatedRowPool, n), columns \in DatedColumnSets}

\* hodl_btc_data: a table, or the default None.
HodlArguments ==
    {[given |-> FALSE, df |-> Frame(<<>>, {})]}
        \cup {[given |-> TRUE, df |-> df] : df \in DatedTables(1)}

\* The ranges the slider offers: min_date <= lo <= hi <= max_date.
DateRanges(df) ==
    LET years == {df.rows[i]["Purchase date"] : i \in 1..Len(df.rows)}
    IN  {r \in years \X years : r[1] <= r[2]}

\* df[df['Purchase date'].dt.year.between(lo, hi)].reset_index(drop=True)
in_date_range(df, date_range) ==
    Frame(SelectSeq(df.rows, LAMBDA row : /\ date_range[1] <= row["Purchase date"]
                                          /\ row["Purchase date"] <= date_range[2]),
          df.cols)

\* update_portfolio_current_balance(hodl_btc_data), hodl_btc_data a table or
\* None: None has no attribute 'columns', and AttributeError is not caught.
update_hodl(hodl_btc_data, outcome) ==
    IF hodl_btc_data.given THEN update_portfolio_current_balance(hodl_btc_data.df, outcome)
    ELSE [exc |-> "AttributeError: 'NoneType' object has no attribute 'columns'",
          ret |-> <<>>, events |-> <<>>, arg |-> hodl_btc_data.df]

\* if st.toggle('Exclude outliers'): exclude_outliers(...)
exclude_if(toggle, df) == IF toggle THEN exclude_outliers(df) ELSE [exc |-> "none", ret |-> df]

\* The return of update_and_exclude_outliers, given its two filtered tables.
both_filtered(momentum_filtered, hodl_filtered, arg) ==
    IF momentum_filtered.exc # "none" THEN [exc |-> momentum_filtered.exc, ret |-> <<>>, arg |-> arg]
    ELSE IF hodl_filtered.exc # "none" THEN [exc |-> hodl_filtered.exc, ret |-> <<>>, arg |-> arg]
    ELSE [exc |-> "none", ret |-> <<momentum_filtered.ret, hodl_filtered.ret>>, arg |-> arg]

\* update_and_exclude_outliers after its two updates.
both_updated(momentum_updated, hodl_updated, toggle) ==
    IF momentum_updated.exc # "none"
    THEN [exc |-> momentum_updated.exc, ret |-> <<>>, arg |-> momentum_updated.arg]
    ELSE IF hodl_updated.exc # "none"
    THEN [exc |-> hodl_updated.exc, ret |-> <<>>, arg |-> momentum_updated.arg]
    ELSE both_filtered(exclude_if(toggle, momentum_updated.ret),
                       exclude_if(toggle, hodl_updated.ret), momentum_updated.arg)

\* The exception that leaves it, the two tables it returns, and the caller's
\* momentum table after it.
update_and_exclude_outliers(momentum_data, hodl_btc_data, toggle, outcome) ==
    both_updated(update_portfolio_current_balance(momentum_data, outcome),
                 update_hodl(hodl_btc_data, outcome), toggle)

\* The result of a run of show_main_tab: the exception that leaves it, whether
\* it returned at one of the two checks of its arguments, the tables
\* calculate_strategy_stats was called on, and the caller's momentum table
\* after the run.
Run(exc, early, stats_on, arg) == [exc |-> exc, early |-> early, stats_on |-> stats_on, arg |-> arg]

\* show_main_tab from its two calls of calculate_strategy_stats.
with_stats(momentum_stats, hodl_btc_stats, momentum_data, hodl_btc_data, arg) ==
    IF momentum_stats.exc # "none" THEN Run(momentum_stats.exc, FALSE, <<momentum_data>>, arg)
    ELSE Run(hodl_btc_stats.exc, FALSE, <<momentum_data, hodl_btc_data>>, arg)

\* show_main_tab from the two tables cut to the date range.
in_range(momentum_data, hodl_btc_data, arg) ==
    with_stats(calculate_strategy_stats(momentum_data), calculate_strategy_stats(hodl_btc_data),
               momentum_data, hodl_btc_data, arg)

\* show_main_tab after update_and_exclude_outliers.
after_outliers(excluded, date_range) ==
    IF excluded.exc # "none" THEN Run(excluded.exc, FALSE, <<>>, excluded.arg)
    ELSE in_range(in_date_range(excluded.ret[1], date_range),
                  in_date_range(excluded.ret[2], date_range), excluded.arg)

\* A run of show_main_tab up to the two calls of calculate_strategy_stats.
show_main_tab(momentum_data, hodl_btc_data, toggle, date_range, outcome) ==
    IF \/ Len(momentum_data.rows) = 0
       \/ "Purchase date" \notin momentum_data.cols
       \/ "Portfolio" \notin momentum_data.cols
    THEN Run("none", TRUE, <<>>, momentum_data)
    ELSE IF /\ hodl_btc_data.given
            /\ \/ Len(hodl_btc_data.df.rows) = 0
               \/ "Purchase date" \notin hodl_btc_data.df.cols
               \/ "Portfolio" \notin hodl_btc_data.df.cols
    THEN Run("none", TRUE, <<>>, momentum_data)
    ELSE after_outliers(update_and_exclude_outliers(momentum_data, hodl_btc_data, toggle, outcome),
                        date_range)

InitMainTab ==
    /\ returns = <<>>
    /\ \E df \in DatedTables(MaxRows) :
          /\ table = df.rows
          /\ cols = df.cols
    /\ lookup \in SessionLookups
    /\ out = NoCall
    /\ seen = NoCall
    /\ cache = NoCache
    /\ session_state = NoSessionState

ShowMainTab ==
    \E hodl_btc_data \in HodlArguments, toggle \in BOOLEAN :
        LET momentum_data == Frame(table, cols)
            ranges == IF "Purchase date" \in cols /\ Len(table) > 0
                      THEN DateRanges(momentum_data) ELSE {<<0, 0>>}
        IN  \E date_range \in ranges :
                LET r == show_main_tab(momentum_data, hodl_btc_data, toggle, date_range, lookup)
                IN  /\ out = NoCall
                    /\ out' = [op |-> "show_main_tab",
                               args |-> <<momentum_data, hodl_btc_data, toggle, date_range>>,
                               exc |-> r.exc,
                               ret |-> [early |-> r.early, stats_on |-> r.stats_on],
                               events |-> IF r.early THEN <<<<"st.warning">>>> ELSE <<>>,
                               after |-> <<>>]
                    /\ table' = r.arg.rows
                    /\ cols' = r.arg.cols
                    /\ UNCHANGED <<cache, session_state, returns, lookup, seen>>

NextMainTab == ShowMainTab

SpecMainTab == InitMainTab /\ [][NextMainTab]_vars

\* --------------------------------------------------------- the exchange tab
\* The symbols show_prices is asked for; the last one is unknown to the
\* exchange, which then answers without 'symbol' and 'price'.
Symbols == {"BTCUSDT", "LINKUSDT", "ETHUSDT"}

UnknownSymbol == "XXXUSDT"

\* The prices the exchange quotes for a symbol.  No price is quoted for two
\* symbols, so that a price tells which symbol it was fetched for.
QuotesOf(symbol) ==
    CASE symbol = "BTCUSDT" -> {40, 41}
      [] symbol = "LINKUSDT" -> {10, 11}
      [] symbol = "ETHUSDT" -> {20, 21}

Markets == {m \in [Symbols -> 10..41] : \A s \in Symbols : m[s] \in QuotesOf(s)}

\* requests.get(...ticker/price?symbol=...).json()
ticker_price(market, symbol) ==
    IF symbol \in Symbols THEN [known |-> TRUE, symbol |-> symbol, price |-> market[symbol]]
    ELSE [known |-> FALSE, symbol |-> "", price |-> 0]

\* st.session_state.key = value
SetState(state, key, value) == [k \in DOMAIN state \cup {key} |-> IF k = key THEN value ELSE state[k]]

\* show_prices: the exception that leaves it, the two metrics it displays
\* (label and value) and the session state after it.
show_prices(your_coin, market, state) ==
    LET btc_data == ticker_price(market, "BTCUSDT")
        your_coin_data == ticker_price(market, your_coin)
        with_btc == IF "btc_price" \notin DOMAIN state
                    THEN SetState(state, "btc_price", btc_data.price) ELSE state
        with_both == IF "your_coin_price" \notin DOMAIN with_btc
                     THEN SetState(with_btc, "your_coin_price", your_coin_data.price)
                     ELSE with_btc
    IN  IF ~your_coin_data.known
        THEN [exc |-> IF "your_coin_price" \notin DOMAIN with_btc THEN "KeyError: 'price'"
                      ELSE "KeyError: 'symbol'",
              metrics |-> <<>>, state |-> with_btc]
        ELSE [exc |-> "none",
              metrics |-> <<<<your_coin_data.symbol, with_both["your_coin_price"]>>,
                            <<btc_data.symbol, with_both["btc_price"]>>>>,
              state |-> with_both]

\* update_prices, the callback of the button 'Update prices'.
update_prices(market, state) ==
    LET btc_data == ticker_price(market, "BTCUSDT")
        your_coin_data == ticker_price(market, "LINKUSDT")
    IN  SetState(SetState(state, "btc_price", btc_data.price),
                 "your_coin_price", your_coin_data.price)

InitExchange ==
    /\ returns = <<>>
    /\ table = <<>>
    /\ cols = {}
    /\ lookup \in Markets
    /\ out = NoCall
    /\ seen = NoCall
    /\ cache = NoCache
    /\ session_state = NoSessionState

\* The page is rendered for a coin.
ShowPrices ==
    \E your_coin \in Symbols \cup {UnknownSymbol} :
        LET r == show_prices(your_coin, lookup, session_state)
        IN  /\ out' = [op |-> "show_prices", args |-> <<your_coin>>, exc |-> r.exc,
                       ret |-> r.metrics, events |-> <<>>, after |-> <<>>]
            /\ session_state' = r.state
            /\ UNCHANGED <<cache, returns, table, cols, lookup, seen>>

\* The button, once rendered, is clicked.
UpdatePrices ==
    /\ out.op = "show_prices"
    /\ out.exc = "none"
    /\ session_state' = update_prices(lookup, session_state)
    /\ out' = Returned("update_prices", <<>>, <<>>)
    /\ UNCHANGED <<cache, returns, table, cols, lookup, seen>>

\* The exchange quotes another price for a symbol.
MarketMoves ==
    /\ lookup' \in {m \in Markets : \E s \in Symbols : \A t \in Symbols \ {s} : m[t] = lookup[t]}
    /\ lookup' # lookup
    /\ UNCHANGED <<cache, session_state, returns, table, cols, out, seen>>

NextExchange ==
    \/ ShowPrices
    \/ UpdatePrices
    \/ MarketMoves

SpecExchange == InitExchange /\ [][NextExchange]_vars

\* ------------------------------------------------ claims on the metrics
AllEqual(s) == \A i, j \in 1..Len(s) : s[i] = s[j]

Sum1(s) == SumSeq(s)

Sum2(s) == SumSeq([i \in 1..Len(s) |-> s[i] * s[i]])

\* (mean(s) - rf)^2 / (var(sub) * nf) from the power sums of s and sub, and its sign.
ExpectedRatio(s, sub, rf, nf) ==
    LET n == Len(s)
        k == Len(sub)
        num == Sum1(s) - n * rf
    IN  [sgn   |-> Sgn(num),
         sq    |-> Rat(num * num * k * (k - 1),
                       n * n * (k * Sum2(sub) - Sum1(sub) * Sum1(sub)) * nf),
         noise |-> FALSE]

\* C2: calculate_sharpe_ratio returns exactly 0.0 for every series of length 1
\* and for every series of n >= 2 copies of one value c # 0, whatever
\* risk_free_rate and normalization_factor are; for every series that is not
\* constant it returns (mean - risk_free_rate) / (std * sqrt(normalization_factor)).
C2_SharpeZeroOrRatio ==
    out.op = "calculate_sharpe_ratio" =>
        /\ (Len(returns) = 1 \/ (Len(returns) >= 2 /\ AllEqual(returns) /\ returns[1] # 0))
              => out.ret = ZeroRatio
        /\ (Len(returns) >= 2 /\ ~AllEqual(returns))
              => out.ret = ExpectedRatio(returns, returns, out.args[1], out.args[2])

\* C3: calculate_sortino_ratio returns 0 for every series with no negative
\* return, exactly one negative return or negative returns that are all equal,
\* whatever the mean; otherwise it returns
\* (mean - risk_free_rate) / (std(negative returns) * sqrt(normalization_factor)).
C3_SortinoZeroOrRatio ==
    out.op = "calculate_sortino_ratio" =>
        LET neg == SelectSeq(returns, LAMBDA x : x < 0)
        IN  /\ (Len(neg) <= 1 \/ AllEqual(neg)) => out.ret = ZeroRatio
            /\ (Len(neg) >= 2 /\ ~AllEqual(neg))
                  => out.ret = ExpectedRatio(returns, neg, out.args[1], out.args[2])

RECURSIVE ProdTo(_, _)
ProdTo(s, i) == IF i = 0 THEN 1 ELSE ProdTo(s, i - 1) * (Scale + s[i])

RECURSIVE ScalePow(_)
ScalePow(i) == IF i = 0 THEN 1 ELSE Scale * ScalePow(i - 1)

\* W_i: the product of (1 + r_j) for j <= i.
Wealth(s, i) == Rat(ProdTo(s, i), ScalePow(i))

\* M_i: the maximum of W_1..W_i.
Peak(s, i) ==
    CHOOSE w \in {Wealth(s, k) : k \in 1..i} : \A k \in 1..i : RLeq(Wealth(s, k), w)

Drawdown(s, i) == RDiv(RSub(Wealth(s, i), Peak(s, i)), Peak(s, i))

\* C4: for a non-empty series on which every quotient (W_i - M_i)/M_i is
\* defined, calculate_max_drawdown returns the least of them, the peak M_i
\* being the maximum of W_1..W_i (it starts at the first wealth value, not at
\* the initial capital 1); [0.1, -0.2, 0.1] gives -0.2.
C4_MaxDrawdownIsMinQuotient ==
    (out.op = "calculate_max_drawdown" /\ Len(returns) >= 1
        /\ \A i \in 1..Len(returns) : Peak(returns, i)[1] # 0) =>
        /\ \E i \in 1..Len(returns) : out.ret = Drawdown(returns, i)
        /\ \A i \in 1..Len(returns) : RLeq(out.ret, Drawdown(returns, i))
        /\ returns = <<2, -4, 2>> => out.ret = Rat(-4, Scale)

C4_Witness ==
    /\ out.op = "calculate_max_drawdown"
    /\ returns = <<2, -4, 2>>
    /\ out.ret = Rat(-1, 5)

NeverBelowPeak(s) == \A i \in 1..Len(s) : Wealth(s, i) = Peak(s, i)

InHalfOpenUnit(x) == IsFinite(x) /\ RLess(<<-1, 1>>, x) /\ RLeq(x, Zero)

\* C5 as stated: for every non-empty series, returns <= -1 included,
\* calculate_max_drawdown returns a finite value in (-1, 0], which is 0 exactly
\* when the wealth index never falls below its running maximum, and 0 for a
\* series of length 1.
C5_DrawdownInRangeAnyReturns ==
    (out.op = "calculate_max_drawdown" /\ Len(returns) >= 1) =>
        /\ InHalfOpenUnit(out.ret)
        /\ (out.ret = Zero) <=> NeverBelowPeak(returns)
        /\ Len(returns) = 1 => out.ret = Zero

\* C5 as amended: the same, for every non-empty series whose returns are all
\* greater than -1.
C5_DrawdownInRange ==
    (out.op = "calculate_max_drawdown" /\ Len(returns) >= 1
        /\ \A i \in 1..Len(returns) : returns[i] > -Scale) =>
        /\ InHalfOpenUnit(out.ret)
        /\ (out.ret = Zero) <=> NeverBelowPeak(returns)
        /\ Len(returns) = 1 => out.ret = Zero

C5_Witness ==
    /\ out.op = "calculate_max_drawdown"
    /\ returns = <<2, -2, -2>>
    /\ RLess(<<-1, 1>>, out.ret) /\ RLess(out.ret, Zero)

IsLossRun(s, a, b) == a <= b /\ b <= Len(s) /\ \A i \in a..b : s[i] < 0

\* k is the length of the longest run of consecutive negative returns of s.
LongestLossRun(s, k) ==
    /\ k = 0 \/ \E a \in 1..Len(s) : IsLossRun(s, a, a + k - 1)
    /\ ~ \E a \in 1..Len(s) : IsLossRun(s, a, a + k)

\* C6: for every non-empty series calculate_duration_of_losses returns the
\* length of the longest run of consecutive returns < 0 (0 when there is none;
\* zero and positive returns break a run); for a series of length 1 it is 1 if
\* the return is negative and 0 otherwise; [-0.1, -0.1, 0.1, -0.1] gives 2.
C6_DurationIsLongestLossRun ==
    (out.op = "calculate_duration_of_losses" /\ Len(returns) >= 1) =>
        /\ \E k \in 0..Len(returns) : out.ret = <<k, 1>> /\ LongestLossRun(returns, k)
        /\ Len(returns) = 1 => out.ret = <<IF returns[1] < 0 THEN 1 ELSE 0, 1>>
        /\ returns = <<-2, -2, 2, -2>> => out.ret = <<2, 1>>

C6_Witness ==
    /\ out.op = "calculate_duration_of_losses"
    /\ returns = <<-2, -2, 2, -2>>
    /\ out.ret = <<2, 1>>

Categories == {"PROFIT", "LOSS", "HODL"}

InCategory(x, k) ==
    \/ k = "PROFIT" /\ x > 0
    \/ k = "LOSS" /\ x < 0
    \/ k = "HODL" /\ x = 0

Occurrences(s, k) == Cardinality({i \in 1..Len(s) : InCategory(s[i], k)})

ShareOf(f, k) == IF k \in DOMAIN f THEN f[k] ELSE Zero

IsClassifierCall ==
    out.op \in {"calculate_strategy_share", "basic_metrics.calculate_strategy_stats"}

\* C7: for every non-empty series the classifier (calculate_strategy_share and
\* basic_metrics.calculate_strategy_stats) reports, for each category that
\* occurs (PROFIT: > 0, LOSS: < 0, HODL: = 0), its count divided by the number
\* of elements, so the reported shares sum to 1; [0.1, -0.05, 0, 0.2, -0.1]
\* gives PROFIT 0.4, LOSS 0.4, HODL 0.2.
C7_SharesAreCountOverTotal ==
    (IsClassifierCall /\ Len(returns) >= 1) =>
        /\ DOMAIN out.ret \subseteq Categories
        /\ \A k \in Categories : Occurrences(returns, k) > 0 =>
              k \in DOMAIN out.ret /\ out.ret[k] = Rat(Occurrences(returns, k), Len(returns))
        /\ RAdd(ShareOf(out.ret, "PROFIT"),
                RAdd(ShareOf(out.ret, "LOSS"), ShareOf(out.ret, "HODL"))) = <<1, 1>>
        /\ returns = <<2, -1, 0, 4, -2>> =>
              /\ out.ret["PROFIT"] = Rat(4, 10)
              /\ out.ret["LOSS"] = Rat(4, 10)
              /\ out.ret["HODL"] = Rat(2, 10)

C7_Witness ==
    /\ out.op = "basic_metrics.calculate_strategy_stats"
    /\ returns = <<2, -1, 0, 4, -2>>
    /\ out.ret["HODL"] = Rat(1, 5)

\* C8: for every non-empty series the record of the classifier has exactly the
\* three keys PROFIT, LOSS and HODL, with share 0.0 for a category that does not
\* occur.
C8_ThreeKeysAlways ==
    (IsClassifierCall /\ Len(returns) >= 1) =>
        /\ DOMAIN out.ret = Categories
        /\ \A k \in Categories : Occurrences(returns, k) = 0 => out.ret[k] = Zero

\* ----------------------------------------------- claims on the dashboard run
Warned(call) == \E i \in 1..Len(call.events) : call.events[i] = <<"st.warning">>

LookedUp(call) == \E i \in 1..Len(call.events) : call.events[i][1] = "lookup"

\* C1: when the price lookup fails (a network error, a timeout, too many
\* redirects, or an answer without the price field),
\* update_portfolio_current_balance does not abort: it warns and returns the
\* table as it was given, the last row's sell price, return and portfolio
\* balance retained, so that calculate_strategy_stats can follow.
C1_LookupFailureDegrades ==
    (/\ out.op = "update_portfolio_current_balance"
     /\ out.args[1].cols = AllColumns
     /\ LookedUp(out)
     /\ lookup.kind # "price") =>
        /\ out.exc = "none"
        /\ Warned(out)
        /\ out.ret = out.args[1]
        /\ Frame(table, cols) = out.args[1]

\* C9: an operation given a zero-length input aborts with EmptyInputError: the
\* return classifier on a table without rows, and calculate_strategy_stats on a
\* table without rows (the columns they read being present).
C9_EmptyInputSignalsEmptyInputError ==
    (/\ \/ out.op = "basic_metrics.calculate_strategy_stats"
        \/ out.op = "calculate_strategy_stats"
     /\ {"Portfolio", "Profit / Loss %"} \subseteq out.args[1].cols
     /\ Len(out.args[1].rows) = 0) =>
        out.exc = "EmptyInputError"

\* The columns an operation reads.
Needs(op) ==
    CASE op = "update_portfolio_current_balance" -> {"Coin", "Purchase price", "Quantity"}
      [] op = "calculate_strategy_stats" -> {"Portfolio", "Profit / Loss %"}
      [] op = "exclude_outliers" -> {"Profit / Loss %"}
      [] op = "basic_metrics.calculate_strategy_stats" -> {"Profit / Loss %"}
      [] OTHER -> {}

\* The column an exception names.
ColumnNamed(exc) ==
    CASE exc = "KeyError: 'Portfolio'" -> {"Portfolio"}
      [] exc = "KeyError: 'Profit / Loss %'" -> {"Profit / Loss %"}
      [] exc = "ValueError: Column 'Profit / Loss %' not found in strategy_data."
            -> {"Profit / Loss %"}
      [] OTHER -> {}

\* C10: when the table (with at least one row) lacks a column the operation
\* reads, the operation aborts with an error that names a missing column and
\* reaches the caller; no summary and no table is returned.
C10_MissingColumnSignalsSchemaError ==
    (/\ out.op # "none"
     /\ Len(out.args[1].rows) >= 1
     /\ ~(Needs(out.op) \subseteq out.args[1].cols)) =>
        /\ ColumnNamed(out.exc) # {}
        /\ ColumnNamed(out.exc) \subseteq Needs(out.op) \ out.args[1].cols
        /\ out.ret = <<>>

\* ------------------------------------------ claims on describe_profit_loss
IsDescribeCall ==
    out.op \in {"describe_profit_loss", "basic_metrics.describe_profit_loss"}

\* The returns of the rows of the table given to the call.
DescribedReturns == [i \in 1..Len(out.args[1].rows) |-> out.args[1].rows[i]["Profit / Loss %"]]

\* A return counts: it is not 0 and, under the flag, it lies in [-5, 5].
Counts(r, flag) == r # 0 /\ (flag => (-5 * Scale <= r /\ r <= 5 * Scale))

CountOf(key) == IF key \in DOMAIN out.ret THEN out.ret[key].count ELSE 0

\* C11: describe_profit_loss ignores every row whose return is exactly 0, with
\* and without the flag, and under the flag also every row whose return is
\* outside [-5, 5], keeping -5 and 5: the Profit count is the number of positive
\* returns that count and the Loss count the number of negative ones, so the two
\* sum to the number of non-zero rows that pass the bound.
C11_DescribeIgnoresZeroAndOutliers ==
    (IsDescribeCall /\ out.exc = "none") =>
        LET r == DescribedReturns
            flag == out.args[2]
        IN  /\ CountOf("Profit") = Cardinality({i \in 1..Len(r) : r[i] > 0 /\ Counts(r[i], flag)})
            /\ CountOf("Loss") = Cardinality({i \in 1..Len(r) : r[i] < 0 /\ Counts(r[i], flag)})
            /\ CountOf("Profit") + CountOf("Loss")
                  = Cardinality({i \in 1..Len(r) : Counts(r[i], flag)})

\* Under the flag, a table with a zero row, a row at the bound 5 and a row
\* beyond -5 is described: the row at the bound is the one counted.
C11_Witness ==
    /\ out.op = "describe_profit_loss"
    /\ out.exc = "none"
    /\ out.args[2]
    /\ DescribedReturns = <<0, 5 * Scale, -6 * Scale>>
    /\ CountOf("Profit") = 1
    /\ CountOf("Loss") = 0

\* C12: describe_profit_loss returns exactly the two rows Profit and Loss for
\* every table, also one without a positive return, without a negative return
\* or with zero returns only, and the statistics of a row are those of the
\* absolute values: min <= 25% <= 50% <= 75% <= max and all of them >= 0.
C12_DescribeHasProfitAndLossRows ==
    (IsDescribeCall /\ "Profit / Loss %" \in out.args[1].cols
                    /\ Len(out.args[1].rows) >= 1) =>
        /\ out.exc = "none"
        /\ DOMAIN out.ret = {"Profit", "Loss"}
        /\ \A k \in DOMAIN out.ret :
              /\ RLeq(Zero, out.ret[k].min)
              /\ RLeq(out.ret[k].min, out.ret[k].q25)
              /\ RLeq(out.ret[k].q25, out.ret[k].q50)
              /\ RLeq(out.ret[k].q50, out.ret[k].q75)
              /\ RLeq(out.ret[k].q75, out.ret[k].max)

\* --------------------------------------- claims on calculate_strategy_stats
\* A summary was computed: calculate_strategy_stats returned.
IsSummary == out.op = "calculate_strategy_stats" /\ out.exc = "none"

\* The table the summary was computed from, and its returns.
Summarised == out.args[1]

SummarisedReturns ==
    [i \in 1..Len(Summarised.rows) |-> Summarised.rows[i]["Profit / Loss %"]]

\* C13: for a table with at least one row, return_on_investment is (Portfolio
\* of the last row - Portfolio of the first row) / Portfolio of the first row,
\* month_over_month is the return of the last row and life_period is the number
\* of rows.
C13_RoiMonthOverMonthLifePeriod ==
    IsSummary =>
        LET n == Len(Summarised.rows)
            opening == Summarised.rows[1]["Portfolio"]
            closing == Summarised.rows[n]["Portfolio"]
        IN  /\ out.ret.return_on_investment = Rat(closing - opening, opening)
            /\ out.ret.month_over_month = Rat(SummarisedReturns[n], Scale)
            /\ out.ret.life_period = n

\* A summary of two rows whose balances differ.
C13_Witness ==
    /\ IsSummary
    /\ Len(Summarised.rows) = 2
    /\ Summarised.rows[1]["Portfolio"] # Summarised.rows[2]["Portfolio"]
    /\ out.ret.return_on_investment # Zero

\* C14: on a table of exactly one row calculate_strategy_stats does not raise
\* and reports monthly_return_with_compound_interest = 0.0; on a table of
\* n >= 2 rows it reports (closing / opening) ^ (1 / (n - 1)) - 1.
C14_CompoundReturnGuardsOneRow ==
    /\ (out.op = "calculate_strategy_stats" /\ out.exc # "none")
          => (Len(Summarised.rows) = 0 \/ ~({"Portfolio", "Profit / Loss %"} \subseteq Summarised.cols))
    /\ IsSummary =>
          LET n == Len(Summarised.rows)
              opening == Summarised.rows[1]["Portfolio"]
              closing == Summarised.rows[n]["Portfolio"]
              ci == out.ret.monthly_return_with_compound_interest
          IN  IF n = 1 THEN ci.zero
              ELSE ~ci.zero /\ ci.base = Rat(closing, opening) /\ ci.root = n - 1

\* A summary of a single row: the guarded division by zero happened.
C14_Witness ==
    /\ IsSummary
    /\ Len(Summarised.rows) = 1
    /\ out.ret.monthly_return_with_compound_interest.zero

\* The largest and the smallest of the returns of one sign (sgn = 1 or -1).
Extreme(r, sgn, largest) ==
    CHOOSE i \in {j \in 1..Len(r) : r[j] * sgn > 0} :
        \A k \in {j \in 1..Len(r) : r[j] * sgn > 0} :
            IF largest THEN r[k] <= r[i] ELSE r[i] <= r[k]

\* C15: max_loss is the minimum (most negative) of the negative returns and
\* min_loss their maximum, max_profit and min_profit are the maximum and the
\* minimum of the positive returns; so with a loss and a profit in the table
\* max_loss <= min_loss < 0 < min_profit <= max_profit.
C15_LossLabelsAreAsymmetric ==
    IsSummary =>
        LET r == SummarisedReturns
            loss == \E i \in 1..Len(r) : r[i] < 0
            profit == \E i \in 1..Len(r) : r[i] > 0
        IN  /\ loss => /\ out.ret.max_loss = Rat(r[Extreme(r, -1, FALSE)], Scale)
                       /\ out.ret.min_loss = Rat(r[Extreme(r, -1, TRUE)], Scale)
            /\ profit => /\ out.ret.max_profit = Rat(r[Extreme(r, 1, TRUE)], Scale)
                         /\ out.ret.min_profit = Rat(r[Extreme(r, 1, FALSE)], Scale)
            /\ (loss /\ profit) =>
                  /\ RLeq(out.ret.max_loss, out.ret.min_loss)
                  /\ RLess(out.ret.min_loss, Zero)
                  /\ RLess(Zero, out.ret.min_profit)
                  /\ RLeq(out.ret.min_profit, out.ret.max_profit)

\* A summary of a table with two different losses.
C15_Witness ==
    /\ IsSummary
    /\ IsFinite(out.ret.max_loss)
    /\ RLess(out.ret.max_loss, out.ret.min_loss)

\* C16: the summary's sharpe_ratio and sortino_ratio are normalised by sqrt(n)
\* once, n the number of returns, with risk-free rate 0: for returns that are not
\* all equal sharpe_ratio = mean / (std * sqrt(n)), and for negative returns
\* that are not all equal sortino_ratio = mean / (downside std * sqrt(n)).
C16_RatiosUseSqrtOfCount ==
    IsSummary =>
        LET r == SummarisedReturns
            neg == SelectSeq(r, LAMBDA x : x < 0)
        IN  /\ ~AllEqual(r) => out.ret.sharpe_ratio = ExpectedRatio(r, r, 0, Len(r))
            /\ ~AllEqual(neg) => out.ret.sortino_ratio = ExpectedRatio(r, neg, 0, Len(r))

\* A summary of two rows with two different losses: both ratios are defined
\* and not 0.
C16_Witness ==
    /\ IsSummary
    /\ Len(SummarisedReturns) = 2
    /\ out.ret.sharpe_ratio.sgn = -1
    /\ out.ret.sortino_ratio.sgn = -1
    /\ IsFinite(out.ret.sortino_ratio.sq)

RECURSIVE RPow(_, _)
RPow(x, k) == IF k = 0 THEN <<1, 1>> ELSE RMul(RPow(x, k - 1), x)

\* The cell holds the number base ^ (1 / root) - 1 (0.0 for root = 0).
HoldsRoot(cell, base, root) ==
    IF root = 0 THEN cell.zero \/ (IsFinite(cell.base) /\ cell.base = <<1, 1>>)
    ELSE /\ ~cell.zero
         /\ IsFinite(cell.base)
         /\ cell.root > 0
         /\ RPow(cell.base, root) = RPow(base, cell.root)

\* C18: for every balance series of length n >= 1 and every date series of the
\* same length, dates that occur more than once included, the result has
\* length n, its position 0 is 0.0 and its position i >= 1 is
\* (balance[i] / balance[0]) ^ (1 / i) - 1.
C18_DynamicsByPosition ==
    (out.op = "calculate_compound_interest_dynamics" /\ Len(out.args[1]) >= 1) =>
        LET balance == out.args[1]
        IN  /\ out.exc = "none"
            /\ Len(out.ret) = Len(balance)
            /\ \A i \in 1..Len(balance) :
                  HoldsRoot(out.ret[i], Rat(balance[i], balance[1]), i - 1)

\* The same for date series in which every date occurs once.
DynamicsByPositionUniqueDates ==
    (out.op = "calculate_compound_interest_dynamics" /\ Len(out.args[1]) >= 1
        /\ \A i, j \in 1..Len(out.args[2]) : out.args[2][i] = out.args[2][j] => i = j) =>
        LET balance == out.args[1]
        IN  /\ out.exc = "none"
            /\ Len(out.ret) = Len(balance)
            /\ \A i \in 1..Len(balance) :
                  HoldsRoot(out.ret[i], Rat(balance[i], balance[1]), i - 1)

\* ------------------------------------------- claims on the correlation tab
\* C19: find_negative_correlation_coins returns one key per base asset (row),
\* also for a base asset without a negative correlation, and the inner mapping
\* of base asset b holds asset c with value v iff c # b, the matrix entry (b, c)
\* is v and v < 0: no self-pair, no value >= 0 and no undefined value.
C19_NegativePairsOnly ==
    out.op = "find_negative_correlation_coins" =>
        LET matrix == out.args[1]
        IN  /\ DOMAIN out.ret = DOMAIN matrix
            /\ \A b \in DOMAIN matrix : \A c \in DOMAIN matrix[b] :
                  /\ c \in DOMAIN out.ret[b]
                        <=> (c # b /\ IsFinite(matrix[b][c]) /\ matrix[b][c][1] < 0)
                  /\ c \in DOMAIN out.ret[b] => out.ret[b][c] = matrix[b][c]
            /\ \A b \in DOMAIN out.ret : DOMAIN out.ret[b] \subseteq DOMAIN matrix[b]

\* A matrix with a negative, a zero and an undefined correlation: one base asset
\* has an empty inner mapping, another a negative pair.
C19_Witness ==
    /\ out.op = "find_negative_correlation_coins"
    /\ out.args[1]["BTC"]["ETH"] = <<-1, 2>>
    /\ out.args[1]["BTC"]["SOL"] = <<0, 1>>
    /\ out.args[1]["ETH"]["SOL"] = NaN
    /\ DOMAIN out.ret["SOL"] = {}
    /\ DOMAIN out.ret["BTC"] = {"ETH"}

IsVisualizeCall ==
    out.op \in {"visualize_negative_correlations", "tab_data.visualize_negative_correlations"}

\* C20: the re-filter selects an entry (base, other, value) of the structure
\* iff value is strictly below the threshold and the subset of base assets is
\* empty or holds base; an entry whose value equals the threshold is not
\* selected.
C20_RefilterBelowThresholdInSubset ==
    IsVisualizeCall =>
        LET structure == out.args[1]
            threshold == out.args[2]
            subset == out.args[3]
        IN  /\ \A b \in DOMAIN structure : \A c \in DOMAIN structure[b] :
                  <<b, c, structure[b][c]>> \in out.ret
                      <=> /\ structure[b][c][1] * threshold[2] < threshold[1] * structure[b][c][2]
                          /\ (subset = {} \/ b \in subset)
            /\ \A e \in out.ret :
                  /\ e[1] \in DOMAIN structure
                  /\ e[2] \in DOMAIN structure[e[1]]
                  /\ e[3] = structure[e[1]][e[2]]

\* A selection that excludes a base asset, an entry at the threshold left out
\* and an entry below it drawn.
C20_Witness ==
    /\ IsVisualizeCall
    /\ out.args[2] = <<-1, 2>>
    /\ out.args[3] = {"BTC"}
    /\ out.args[1]["BTC"] = [c \in {"ETH", "SOL"} |-> IF c = "ETH" THEN <<-1, 2>> ELSE <<-1, 1>>]
    /\ "ETH" \in DOMAIN out.args[1]["SOL"]
    /\ out.ret = {<<"BTC", "SOL", <<-1, 1>>>>}

\* ------------------------------------------ claims on the outlier filter
\* C22: the table handed on to calculate_strategy_stats by the update and the
\* outlier filter has no row whose return is exactly 0, with and without the
\* exclusion; with the exclusion it is exactly the input rows with a non-zero
\* return in [-5, 5], in their order and with the input's columns.
C22_FilterDropsZeroReturns ==
    (out.op = "calculate_strategy_stats" /\ out.exc = "none" /\ out.after # <<>>) =>
        LET handed == out.args[1]
            input == Frame(table, cols)
            excluded == \E i \in 1..Len(out.after) : out.after[i] = "exclude_outliers"
        IN  /\ \A i \in 1..Len(handed.rows) : handed.rows[i]["Profit / Loss %"] # 0
            /\ excluded =>
                  handed = Frame(SelectSeq(input.rows,
                                           LAMBDA row : Counts(row["Profit / Loss %"], TRUE)),
                                 input.cols)

\* ------------------------------------------------ claims on frame effects
CoreOperations ==
    {"update_portfolio_current_balance", "exclude_outliers", "calculate_strategy_stats",
     "basic_metrics.calculate_strategy_stats"}

\* C24: no core operation modifies the table it is given: after the call,
\* whether it returned or raised, the caller's table has the rows, columns and
\* values it had when it was passed (here: a table with every column).
C24_NoOperationModifiesItsInput ==
    (out.op \in CoreOperations /\ AllColumns \subseteq out.args[1].cols)
        => Frame(table, cols) = out.args[1]

\* The lookup of the call was made and answered with a price.
LookupSucceeded ==
    /\ out.op = "update_portfolio_current_balance"
    /\ out.exc = "none"
    /\ LookedUp(out)
    /\ lookup.kind = "price"

UpdatedCells == {"Sell price", "Profit / Loss %", "Portfolio"}

\* C25: when the lookup for the last row's coin succeeds with price p,
\* update_portfolio_current_balance returns the rows in their number and order,
\* with the last row's 'Sell price', 'Profit / Loss %' and 'Portfolio' set to p,
\* (p - purchase price) / purchase price and quantity * p; every other row and
\* every other cell of the last row is as it was, and the one lookup made is for
\* the coin of the last row.
C25_UpdateSetsLastRowOnly ==
    LookupSucceeded =>
        LET before == out.args[1].rows
            after == out.ret.rows
            n == Len(before)
            p == lookup.price
        IN  /\ Len(after) = n
            /\ \A i \in 1..(n - 1) :
                  \A c \in DOMAIN before[i] :
                      c \in DOMAIN after[i] /\ after[i][c] = before[i][c]
            /\ \A i \in 1..(n - 1) : DOMAIN after[i] = DOMAIN before[i]
            /\ \A c \in DOMAIN before[n] \ UpdatedCells : after[n][c] = before[n][c]
            /\ after[n]["Sell price"] = p
            /\ Rat(after[n]["Profit / Loss %"], Scale)
                  = Rat(p - before[n]["Purchase price"], before[n]["Purchase price"])
            /\ after[n]["Portfolio"] = before[n]["Quantity"] * p
            /\ out.events = <<<<"lookup", before[n]["Coin"]>>>>

\* A table of two rows of different coins is updated at a price that differs
\* from the sell price recorded in the last row.
C25_Witness ==
    /\ LookupSucceeded
    /\ Len(out.args[1].rows) = 2
    /\ out.args[1].cols = AllColumns
    /\ out.args[1].rows[1]["Coin"] # out.args[1].rows[2]["Coin"]
    /\ out.ret.rows[2]["Sell price"] # out.args[1].rows[2]["Sell price"]

UniqueKeys(data, key) ==
    \A i, j \in 1..Len(data) : data[i][key] = data[j][key] => i = j

\* C21: in every pipeline that computes the correlation matrix or the percent
\* changes from the raw price table, the rows are deduplicated by 'datetime'
\* first: the table such a computation is made from never has two rows with
\* the same timestamp.
C21_DeduplicatedBeforeCorrelation ==
    out.op \in {"show_corr_data", "show_coin_api_data"} =>
        /\ UniqueKeys(out.ret.correlation_matrix_of, "datetime")
        /\ "pct_change_of" \in DOMAIN out.ret => UniqueKeys(out.ret.pct_change_of, "datetime")

\* The row, found by its label, is the first one with its key value.
FirstOccurrence(data, key, row) ==
    LET i == CHOOSE k \in 1..Len(data) : data[k].label = row.label
    IN  \A j \in 1..(i - 1) : data[j][key] # data[i][key]

\* C27: drop_duplicates returns the rows that are the first occurrence of their
\* key value, in their order: no two returned rows share a key value, every key
\* value of the input is still there, and drop_duplicates of its own output is
\* that output.
C27_DropDuplicatesKeepsFirst ==
    out.op = "drop_duplicates" =>
        LET data == out.args[1]
            key == out.args[2]
        IN  /\ out.ret = SelectSeq(data, LAMBDA row : FirstOccurrence(data, key, row))
            /\ UniqueKeys(out.ret, key)
            /\ {data[i][key] : i \in 1..Len(data)} = {out.ret[i][key] : i \in 1..Len(out.ret)}
            /\ out.after # <<>> => out.ret = data

\* A table in which a timestamp occurs at the first and the third row was
\* cleaned, and the result cleaned again.
C27_Witness ==
    /\ out.op = "drop_duplicates"
    /\ out.after = <<"drop_duplicates">>
    /\ out.args[2] = "datetime"
    /\ Len(table) = 3
    /\ table[1].datetime = table[3].datetime
    /\ table[1].datetime # table[2].datetime
    /\ table[1].BTC # table[3].BTC
    /\ out.ret = <<table[1], table[2]>>

\* ------------------------------------------------ claims on st.cache_data
\* C23: memoisation never changes a result: whatever calls and changes of the
\* external price came before, a call of a cached function returns (or raises)
\* what its body, run without any stored result, returns at that call.
C23_MemoisationNeverChangesAResult ==
    /\ out.op = "update_portfolio_current_balance" =>
            LET r == update_portfolio_current_balance(out.args[1], lookup)
            IN  out.exc = r.exc /\ (r.exc = "none" => out.ret = r.ret)
    /\ out.op = "calculate_strategy_stats" =>
            LET r == calculate_strategy_stats(out.args[1])
            IN  out.exc = r.exc /\ (r.exc = "none" => out.ret = r.ret)

\* --------------------------------------------------- claims on show_main_tab
\* C26: every run of show_main_tab either ends early with a warning and calls
\* calculate_strategy_stats on nothing, or calls calculate_strategy_stats on
\* two tables that have at least one row each; no exception leaves it, whether
\* hodl_btc_data is given or not and whatever the filters remove.  Stated
\* for the runs in which the price service answers with a price.
C26_MainTabNeverRaises ==
    (out.op = "show_main_tab" /\ lookup.kind = "price") =>
        /\ out.exc = "none"
        /\ out.ret.early => out.ret.stats_on = <<>> /\ out.events = <<<<"st.warning">>>>
        /\ ~out.ret.early =>
              /\ Len(out.ret.stats_on) = 2
              /\ \A i \in 1..2 : Len(out.ret.stats_on[i].rows) >= 1

\* ------------------------------------------------ claims on the exchange tab
\* C29: whatever renders of show_prices and clicks of 'Update prices' came
\* before, the price displayed under the label of your_coin is one fetched for
\* that symbol, and the price displayed under BTCUSDT is one fetched for
\* BTCUSDT: no metric shows a price fetched for another symbol.
C29_DisplayedPriceIsOfItsSymbol ==
    (out.op = "show_prices" /\ out.exc = "none") =>
        /\ out.ret[1][1] = out.args[1]
        /\ out.ret[2][1] = "BTCUSDT"
        /\ \A i \in 1..2 : out.ret[i][2] \in QuotesOf(out.ret[i][1])

====
